---- MODULE Spec2Model ----
(***************************************************************************)
(* Model of the analysis core of steam-hardware-analyzer:                  *)
(*   - the bottleneck scorer   (src/src/lib/algorithms/bottleneck-calc.ts) *)
(*   - the trend detector      (src/src/lib/data-processor/ingestion.ts)   *)
(*   - the profile clusterer   (src/src/lib/data-processor/ingestion.ts)   *)
(*                                                                         *)
(* Number representation.  The code computes in IEEE doubles; the model    *)
(* computes the same expressions exactly, in integers:                     *)
(*   - sub-scores of the bottleneck scorer are held in hundredths of a     *)
(*     point (a score of 94.5 is 9450), CPU frequencies in tenths of a GHz;*)
(*   - market-share percentages are held in tenths of a percentage point;  *)
(*   - a slope, a prediction or a centroid coordinate is a fraction        *)
(*     <<numerator, denominator>> with a positive denominator.             *)
(* Rounding errors of the doubles are not modelled.                        *)
(***************************************************************************)
EXTENDS Integers, Sequences, FiniteSets, TLC

VARIABLES
    pc,             \* position of the caller: "input", "done", "threw", and the k-means phases
    gpu, cpu, targetGame, analysis,                   \* calculateBottleneck: arguments, result
    subScores, bottleneckType,                        \* determineBottleneckType: arguments, result
    historical, window, monthsAhead, trends, predictions,  \* trend detector: arguments, results
    surveyData, k, points, centroids, clusters, iteration, userClusters,  \* clusterer
    partialName, found,                               \* findGPUByName: argument, result
    rawData, result,                                  \* processSurveyData: argument, result
    rawDataArray, settled, order, batch,              \* processMultipleSurveyEntries
    callerArray, transformed,                         \* array transformations: the caller's array, result
    specTable, benchmarks, answer                     \* the static reference tables, a query's result

bnVars == <<gpu, cpu, targetGame, analysis>>
dtVars == <<subScores, bottleneckType>>
trVars == <<historical, window, monthsAhead, trends, predictions>>
clVars == <<surveyData, k, points, centroids, clusters, iteration, userClusters>>
dbVars == <<partialName, found>>
inVars == <<rawData, result, rawDataArray, settled, order, batch>>
agVars == <<callerArray, transformed>>
tbVars == <<specTable, benchmarks, answer>>
vars == <<pc, bnVars, dtVars, trVars, clVars, dbVars, inVars, agVars, tbVars>>

(***************************************************************************)
(* JavaScript built-ins used by the code.                                  *)
(***************************************************************************)
Min(a, b) == IF a <= b THEN a ELSE b
Max(a, b) == IF a >= b THEN a ELSE b
Abs(a) == IF a < 0 THEN -a ELSE a

\* Math.round of the fraction n/d (d > 0): the nearest integer, halves rounded up.
MathRound(n, d) == (2 * n + d) \div (2 * d)

ToLowerChar(c) ==
    CASE c = "A" -> "a" [] c = "B" -> "b" [] c = "C" -> "c" [] c = "D" -> "d"
      [] c = "E" -> "e" [] c = "F" -> "f" [] c = "G" -> "g" [] c = "H" -> "h"
      [] c = "I" -> "i" [] c = "J" -> "j" [] c = "K" -> "k" [] c = "L" -> "l"
      [] c = "M" -> "m" [] c = "N" -> "n" [] c = "O" -> "o" [] c = "P" -> "p"
      [] c = "Q" -> "q" [] c = "R" -> "r" [] c = "S" -> "s" [] c = "T" -> "t"
      [] c = "U" -> "u" [] c = "V" -> "v" [] c = "W" -> "w" [] c = "X" -> "x"
      [] c = "Y" -> "y" [] c = "Z" -> "z" [] OTHER -> c

RECURSIVE toLowerCase(_)
toLowerCase(s) ==
    IF Len(s) = 0 THEN ""
    ELSE ToLowerChar(SubSeq(s, 1, 1)) \o toLowerCase(SubSeq(s, 2, Len(s)))

\* String.prototype.includes
includes(s, sub) ==
    \E i \in 1..(Len(s) - Len(sub) + 1) : SubSeq(s, i, i + Len(sub) - 1) = sub

(***************************************************************************)
(* Bottleneck scorer.  Scores are in hundredths of a point, VRAM sizes in  *)
(* quarters of a gigabyte (0.75 GB is 3, 8 GB is 32).                      *)
(***************************************************************************)

\* The multiplier in hundredths (1.1 is 110).
\* calculateVRAMMultiplier penalising VRAM of twice the requirement and more.
calculateVRAMMultiplierPenalisingExcess(gpuVRAM, gameVRAM) ==
    LET d == Max(gameVRAM, 4) IN
    IF gpuVRAM >= 2 * d THEN 50
    ELSE IF 2 * gpuVRAM >= 3 * d THEN 105
    ELSE IF gpuVRAM >= d THEN 100
    ELSE IF 4 * gpuVRAM >= 3 * d THEN 90
    ELSE IF 2 * gpuVRAM >= d THEN 70
    ELSE 50

calculateVRAMMultiplier(gpuVRAM, gameVRAM) ==
    LET d == Max(gameVRAM, 4) IN      \* ratio = gpuVRAM / d; 4 is 1 GB
    IF gpuVRAM >= 2 * d THEN 110
    ELSE IF 2 * gpuVRAM >= 3 * d THEN 105
    ELSE IF gpuVRAM >= d THEN 100
    ELSE IF 4 * gpuVRAM >= 3 * d THEN 90
    ELSE IF 2 * gpuVRAM >= d THEN 70
    ELSE 50

getArchitectureBonus(architecture) ==
    LET arch == toLowerCase(architecture) IN
    IF includes(arch, "ada") \/ includes(arch, "rdna3") THEN 5
    ELSE IF includes(arch, "ampere") \/ includes(arch, "rdna2") THEN 3
    ELSE IF includes(arch, "turing") \/ includes(arch, "rdna") THEN 1
    ELSE 0

\* calculateGPUScore without its cap at 100.
calculateGPUScoreUncapped(g, game) ==
    g.performanceScore * calculateVRAMMultiplier(g.vram, game.recommendedVRAM)
    + 100 * getArchitectureBonus(g.architecture)

calculateGPUScore(g, game) ==
    LET baseScore == g.performanceScore
        vramMultiplier == calculateVRAMMultiplier(g.vram, game.recommendedVRAM)
        architectureBonus == getArchitectureBonus(g.architecture)
    IN  Min(10000, baseScore * vramMultiplier + 100 * architectureBonus)

\* The multiplier in hundredths; effectiveCores is compared in tenths of a core.
calculateCoreMultiplier(cores, threads) ==
    LET effectiveCores10 == Min(10 * cores + 3 * (threads - cores), 20 * cores) IN
    IF effectiveCores10 >= 120 THEN 110
    ELSE IF effectiveCores10 >= 80 THEN 105
    ELSE IF effectiveCores10 >= 60 THEN 100
    ELSE IF effectiveCores10 >= 40 THEN 95
    ELSE 85

\* baseFreq and boostFreq in tenths of a GHz; effectiveFreq in hundredths.
calculateFrequencyBonus(baseFreq, boostFreq) ==
    LET effectiveFreq100 == 7 * baseFreq + 3 * boostFreq IN
    IF effectiveFreq100 >= 450 THEN 5
    ELSE IF effectiveFreq100 >= 400 THEN 3
    ELSE IF effectiveFreq100 >= 350 THEN 1
    ELSE 0

calculateCPUScore(c) ==
    LET baseScore == c.performanceScore
        coreMultiplier == calculateCoreMultiplier(c.cores, c.threads)
        frequencyBonus == calculateFrequencyBonus(c.baseFreq, c.boostFreq)
    IN  Min(10000, baseScore * coreMultiplier + 100 * frequencyBonus)

calculateMemoryScore(vram, game) ==
    \* game.recommendedVRAM || 4 (GB)
    LET required == IF game.recommendedVRAM = 0 THEN 16 ELSE game.recommendedVRAM IN
    IF 2 * vram >= 3 * required THEN 10000
    ELSE IF vram >= required THEN 8500
    ELSE IF 4 * vram >= 3 * required THEN 6500
    ELSE IF 2 * vram >= required THEN 4000
    ELSE 2000

\* determineBottleneckType with <= in place of < in the fallback comparisons.
determineBottleneckTypeNoTieCheck(gpuScore, cpuScore, memoryScore) ==
    LET minScore == Min(gpuScore, Min(cpuScore, memoryScore))
    IN  IF minScore > 8000 THEN "None"
        ELSE IF gpuScore <= cpuScore /\ gpuScore <= memoryScore THEN "GPU"
        ELSE IF cpuScore <= gpuScore /\ cpuScore <= memoryScore THEN "CPU"
        ELSE "Memory"

determineBottleneckType(gpuScore, cpuScore, memoryScore) ==
    LET threshold == 1500
        minScore == Min(gpuScore, Min(cpuScore, memoryScore))
    IN  IF minScore > 8000 THEN "None"
        ELSE IF gpuScore < cpuScore - threshold /\ gpuScore < memoryScore - threshold
             THEN "GPU"
        ELSE IF cpuScore < gpuScore - threshold /\ cpuScore < memoryScore - threshold
             THEN "CPU"
        ELSE IF memoryScore < gpuScore - threshold /\ memoryScore < cpuScore - threshold
             THEN "Memory"
        ELSE IF gpuScore < cpuScore /\ gpuScore < memoryScore THEN "GPU"
        ELSE IF cpuScore < gpuScore /\ cpuScore < memoryScore THEN "CPU"
        ELSE IF memoryScore < gpuScore /\ memoryScore < cpuScore THEN "Memory"
        ELSE "None"

\* Math.round(gpuScore*0.6 + cpuScore*0.3 + memoryScore*0.1), scores in hundredths.
calculateOverallPerformance(gpuScore, cpuScore, memoryScore) ==
    MathRound(6 * gpuScore + 3 * cpuScore + memoryScore, 1000)

getBaselineFPS(gameName) ==
    LET game == toLowerCase(gameName) IN
    IF includes(game, "cyberpunk") THEN 45
    ELSE IF includes(game, "red dead") THEN 50
    ELSE IF includes(game, "call of duty") THEN 90
    ELSE IF includes(game, "fortnite") THEN 120
    ELSE IF includes(game, "valorant") THEN 200
    ELSE IF includes(game, "counter-strike") THEN 180
    ELSE IF includes(game, "apex") THEN 100
    ELSE IF includes(game, "battlefield") THEN 70
    ELSE IF includes(game, "assassin") THEN 55
    ELSE IF includes(game, "witcher") THEN 60
    ELSE 60

\* estimateExpectedFPS with Math.floor in place of Math.round.
estimateExpectedFPSFloor(performanceScore, game) ==
    (getBaselineFPS(game.name) * performanceScore) \div 100

estimateExpectedFPS(performanceScore, game) ==
    LET baseFPS == getBaselineFPS(game.name) IN
    MathRound(baseFPS * performanceScore, 100)

generateRecommendations(type, gpuScore, cpuScore, memoryScore) ==
    CASE type = "GPU" ->
           <<"GPU is the primary bottleneck limiting performance">>
           \o (IF gpuScore < 5000
               THEN <<"Consider upgrading to a more powerful GPU",
                      "Lower graphics settings to improve performance">>
               ELSE <<>>)
           \o <<"Reduce resolution or enable DLSS/FSR if available">>
      [] type = "CPU" ->
           <<"CPU is limiting GPU performance">>
           \o (IF cpuScore < 5000 THEN <<"Consider upgrading to a faster CPU">> ELSE <<>>)
           \o <<"Lower CPU-intensive settings like draw distance",
                "Close background applications to free CPU resources">>
      [] type = "Memory" ->
           <<"Insufficient VRAM is causing performance issues",
             "Lower texture quality and resolution",
             "Disable high VRAM features like ray tracing">>
           \o (IF memoryScore < 4000
               THEN <<"Consider GPU upgrade for more VRAM">> ELSE <<>>)
      [] type = "None" ->
           <<"System is well-balanced for this game",
             "Try increasing graphics settings for better quality">>
           \o (IF gpuScore > 9000 /\ cpuScore > 9000
               THEN <<"Enable ray tracing or other enhanced features">> ELSE <<>>)

generateGPUUpgrades(currentGPU) ==
    LET currentScore == currentGPU.performanceScore IN
    IF currentScore < 50 THEN <<"RTX 4060 / RX 7600", "RTX 4070 / RX 7700 XT">>
    ELSE IF currentScore < 70 THEN <<"RTX 4070 Ti / RX 7800 XT", "RTX 4080 / RX 7900 XTX">>
    ELSE IF currentScore < 85 THEN <<"RTX 4080 Super", "RTX 4090">>
    ELSE <<>>

generateCPUUpgrades(currentCPU) ==
    LET currentScore == currentCPU.performanceScore IN
    IF currentCPU.manufacturer = "Intel"
    THEN IF currentScore < 50 THEN <<"Intel i5-13400F", "Intel i5-14600K">>
         ELSE IF currentScore < 70 THEN <<"Intel i7-13700K", "Intel i7-14700K">>
         ELSE <<"Intel i9-13900K", "Intel i9-14900K">>
    ELSE IF currentScore < 50 THEN <<"AMD Ryzen 5 7600X", "AMD Ryzen 7 7700X">>
         ELSE IF currentScore < 70 THEN <<"AMD Ryzen 7 7800X3D", "AMD Ryzen 9 7900X">>
         ELSE <<"AMD Ryzen 9 7950X", "AMD Ryzen 9 7950X3D">>

generateMemoryUpgrades(currentVRAM, requiredVRAM) ==
    (IF currentVRAM < 32 THEN <<"Upgrade to 8GB VRAM GPU">> ELSE <<>>)
    \o (IF currentVRAM < 48 THEN <<"Upgrade to 12GB VRAM GPU">> ELSE <<>>)
    \o (IF requiredVRAM > 48 THEN <<"Upgrade to 16GB+ VRAM GPU">> ELSE <<>>)

\* Math.round(((targetScore - currentScore) / currentScore) * 100).  A division by a
\* zero currentScore gives Infinity in JavaScript (targetScore > 0): [inf |-> TRUE].
calculateGPUUpgradeImprovement(g) ==
    LET currentScore == g.performanceScore
        targetScore == Min(90, currentScore + 25)
    IN  IF currentScore = 0 THEN [inf |-> TRUE, val |-> 0]
        ELSE [inf |-> FALSE, val |-> MathRound((targetScore - currentScore) * 100, currentScore)]

calculateCPUUpgradeImprovement(c) ==
    LET currentScore == c.performanceScore
        targetScore == Min(90, currentScore + 20)
    IN  IF currentScore = 0 THEN [inf |-> TRUE, val |-> 0]
        ELSE [inf |-> FALSE, val |-> MathRound((targetScore - currentScore) * 100, currentScore)]

calculateMemoryUpgradeImprovement(currentVRAM, requiredVRAM) ==
    IF 2 * currentVRAM >= 3 * requiredVRAM THEN [inf |-> FALSE, val |-> 5]
    ELSE IF currentVRAM >= requiredVRAM THEN [inf |-> FALSE, val |-> 15]
    ELSE IF 4 * currentVRAM >= 3 * requiredVRAM THEN [inf |-> FALSE, val |-> 30]
    ELSE [inf |-> FALSE, val |-> 50]

generateUpgradeOptions(g, c, game, type) ==
    (IF type = "GPU" \/ g.performanceScore < 70
     THEN << [component |-> "GPU", suggestions |-> generateGPUUpgrades(g),
              expectedImprovement |-> calculateGPUUpgradeImprovement(g)] >>
     ELSE <<>>)
    \o (IF type = "CPU" \/ c.performanceScore < 70
        THEN << [component |-> "CPU", suggestions |-> generateCPUUpgrades(c),
                 expectedImprovement |-> calculateCPUUpgradeImprovement(c)] >>
        ELSE <<>>)
    \o (IF type = "Memory" \/ g.vram < game.recommendedVRAM
        THEN << [component |-> "Memory",
                 suggestions |-> generateMemoryUpgrades(g.vram, game.recommendedVRAM),
                 expectedImprovement |->
                     calculateMemoryUpgradeImprovement(g.vram, game.recommendedVRAM)] >>
        ELSE <<>>)

calculateBottleneck(g, c, game) ==
    LET gpuScore == calculateGPUScore(g, game)
        cpuScore == calculateCPUScore(c)
        memoryScore == calculateMemoryScore(g.vram, game)
        type == determineBottleneckType(gpuScore, cpuScore, memoryScore)
        performanceScore == calculateOverallPerformance(gpuScore, cpuScore, memoryScore)
    IN  [ configuration |-> [gpu |-> g, cpu |-> c],
          targetGame |-> game,
          bottleneckType |-> type,
          performanceScore |-> performanceScore,
          expectedFPS |-> estimateExpectedFPS(performanceScore, game),
          recommendations |-> generateRecommendations(type, gpuScore, cpuScore, memoryScore),
          upgradeOptions |-> generateUpgradeOptions(g, c, game, type) ]

(***************************************************************************)
(* Trend detector.  An observation is [gpuModel, percentage, date]: the    *)
(* percentage in tenths of a point (0..1000), the date a month number      *)
(* (observations are dated on the first of a month, so getTime() orders    *)
(* them as the month numbers do).                                          *)
(***************************************************************************)

RECURSIVE GCD(_, _)
GCD(a, b) == IF b = 0 THEN a ELSE GCD(b, a % b)

\* The fraction n/d (d > 0) in lowest terms.
Frac(n, d) == LET g == GCD(Abs(n), d) IN <<n \div g, d \div g>>

FracLess(a, b) == a[1] * b[2] < b[1] * a[2]

\* groupByModel recording a key at every observation, not once a model.
modelKeysNoDedupe(h) == [i \in 1..Len(h) |-> h[i].gpuModel]

\* The keys of the object groupByModel builds, in insertion order.
RECURSIVE modelKeys(_)
modelKeys(h) ==
    IF Len(h) = 0 THEN <<>>
    ELSE LET rest == modelKeys(SubSeq(h, 1, Len(h) - 1))
             model == h[Len(h)].gpuModel
         IN  IF \E i \in 1..Len(rest) : rest[i] = model THEN rest ELSE Append(rest, model)

groupByModel(h) ==
    [model \in {h[i].gpuModel : i \in 1..Len(h)} |->
        SelectSeq(h, LAMBDA entry : entry.gpuModel = model)]

\* analyzeModelTrends without the sort by date.
sortByDateNoSort(s) == s

\* dataPoints.sort((a, b) => a.date.getTime() - b.date.getTime()): a stable sort.
RECURSIVE sortByDate(_)
sortByDate(s) ==
    IF Len(s) <= 1 THEN s
    ELSE LET rest == sortByDate(SubSeq(s, 1, Len(s) - 1))
             x == s[Len(s)]
             pos == Cardinality({i \in 1..Len(rest) : rest[i].date <= x.date})
         IN  SubSeq(rest, 1, pos) \o <<x>> \o SubSeq(rest, pos + 1, Len(rest))

RECURSIVE SumPercentage(_)
SumPercentage(s) ==
    IF Len(s) = 0 THEN 0 ELSE s[1].percentage + SumPercentage(SubSeq(s, 2, Len(s)))

\* With w < 1 the loop's first index is negative and dataPoints[i].date throws
\* a TypeError.
calculateMovingAveragesThrows(dataPoints, w) == w < 1

\* Moving averages that start at the first point with a shortened window.
calculateMovingAveragesFromFirst(dataPoints, w) ==
    [j \in 1..Len(dataPoints) |->
        [date |-> dataPoints[j].date,
         value |-> <<SumPercentage(SubSeq(dataPoints, Max(1, j - w + 1), j)), w>>]]

\* One average per index i = w..Len (1-based); its value is the fraction sum/w,
\* kept as <<sum, w>>.
calculateMovingAverages(dataPoints, w) ==
    [j \in 1..Max(Len(dataPoints) - w + 1, 0) |->
        [date |-> dataPoints[j + w - 1].date,
         value |-> <<SumPercentage(SubSeq(dataPoints, j, j + w - 1)), w>>]]

\* values.reduce((sum, val) => sum + val, 0)
RECURSIVE SumSeq(_)
SumSeq(values) ==
    IF Len(values) = 0 THEN 0 ELSE values[1] + SumSeq(SubSeq(values, 2, Len(values)))

\* Least-squares slope of the values against their index 0..n-1.  The values share
\* the denominator w, so the slope is (n*sumXY - sumX*sumY) / (w * denominator).
calculateTrendSlope(movingAverages) ==
    IF Len(movingAverages) < 2 THEN <<0, 1>>
    ELSE LET n == Len(movingAverages)
             w == movingAverages[1].value[2]
             X(i) == i - 1
             Y(i) == movingAverages[i].value[1]
             XY(i) == X(i) * Y(i)
             XX(i) == X(i) * X(i)
             sumX == SumSeq([i \in 1..n |-> X(i)])
             sumY == SumSeq([i \in 1..n |-> Y(i)])
             sumXY == SumSeq([i \in 1..n |-> XY(i)])
             sumXX == SumSeq([i \in 1..n |-> XX(i)])
             denominator == n * sumXX - sumX * sumX
         IN  IF denominator = 0 THEN <<0, 1>>
             ELSE Frac(n * sumXY - sumX * sumY, w * denominator)

\* The SQUARE of the confidence, as a fraction: the confidence itself holds a
\* square root (the standard deviation).  variance = V / n^2.
calculateTrendConfidenceSq(dataPoints, slope) ==
    IF Len(dataPoints) < 3 THEN <<0, 1>>
    ELSE LET n == Len(dataPoints)
             Val(i) == dataPoints[i].percentage
             Sq(i) == Val(i) * Val(i)
             sum == SumSeq([i \in 1..n |-> Val(i)])
             V == n * SumSeq([i \in 1..n |-> Sq(i)]) - sum * sum
             normalizedSq == Frac(slope[1] * slope[1] * n * n, slope[2] * slope[2] * V)
             confidenceSq == IF FracLess(normalizedSq, <<1, 1>>) THEN normalizedSq ELSE <<1, 1>>
             factorSq == IF n < 12 THEN Frac(n * n, 144) ELSE <<1, 1>>
         IN  IF V = 0 THEN <<1, 1>>
             ELSE Frac(confidenceSq[1] * factorSq[1], confidenceSq[2] * factorSq[2])

\* threshold 0.1 of a point is 1 in the model's tenths.
\* determineTrendDirection calling every positive slope growing, every negative
\* one declining.
determineTrendDirectionNoThreshold(slope) ==
    IF slope[1] > 0 THEN "growing" ELSE IF slope[1] < 0 THEN "declining" ELSE "stable"

determineTrendDirection(slope) ==
    IF slope[1] > slope[2] THEN "growing"
    ELSE IF slope[1] < -slope[2] THEN "declining"
    ELSE "stable"

\* trend.confidence > 0.3, on the squared confidence: c > 0.3 iff c^2 > 0.09.
ConfidenceAbove03(trend) == 100 * trend.confidenceSq[1] > 9 * trend.confidenceSq[2]

analyzeModelTrends(h, w) ==
    LET modelGroups == groupByModel(h) IN
    [model \in DOMAIN modelGroups |->
        LET sortedPoints == sortByDate(modelGroups[model]) IN
        IF Len(sortedPoints) < 2
        THEN [direction |-> "stable", rate |-> <<0, 1>>, confidenceSq |-> <<0, 1>>,
              dataPoints |-> Len(sortedPoints)]
        ELSE LET movingAverages == calculateMovingAverages(sortedPoints, w)
                 trendSlope == calculateTrendSlope(movingAverages)
             IN  [direction |-> determineTrendDirection(trendSlope),
                  rate |-> <<Abs(trendSlope[1]), trendSlope[2]>>,
                  confidenceSq |-> calculateTrendConfidenceSq(sortedPoints, trendSlope),
                  dataPoints |-> Len(sortedPoints)]]

analyzeModelTrendsThrows(h, w) ==
    LET modelGroups == groupByModel(h) IN
    \E model \in DOMAIN modelGroups :
        Len(modelGroups[model]) >= 2 /\ calculateMovingAveragesThrows(modelGroups[model], w)

\* findFastestGrowth / findFastestDecline without the confidence test.
RECURSIVE findFastestNoGate(_, _, _)
findFastestNoGate(keys, trendsByModel, direction) ==
    IF Len(keys) = 0 THEN [model |-> "", rate |-> <<0, 1>>]
    ELSE LET sofar == findFastestNoGate(SubSeq(keys, 1, Len(keys) - 1), trendsByModel, direction)
             model == keys[Len(keys)]
             trend == trendsByModel[model]
         IN  IF trend.direction = direction /\ FracLess(sofar.rate, trend.rate)
             THEN [model |-> model, rate |-> trend.rate]
             ELSE sofar

\* The forEach over Object.entries(trends), for the direction given: the entry
\* replaces the fastest so far when its rate is strictly greater and its
\* confidence is above 0.3.
RECURSIVE findFastest(_, _, _)
findFastest(keys, trendsByModel, direction) ==
    IF Len(keys) = 0 THEN [model |-> "", rate |-> <<0, 1>>]
    ELSE LET sofar == findFastest(SubSeq(keys, 1, Len(keys) - 1), trendsByModel, direction)
             model == keys[Len(keys)]
             trend == trendsByModel[model]
         IN  IF /\ trend.direction = direction
                /\ FracLess(sofar.rate, trend.rate)
                /\ ConfidenceAbove03(trend)
             THEN [model |-> model, rate |-> trend.rate]
             ELSE sofar

findFastestGrowth(keys, trendsByModel) ==
    LET f == findFastest(keys, trendsByModel, "growing") IN
    [model |-> IF f.model = "" THEN "None" ELSE f.model, growthRate |-> f.rate]

findFastestDecline(keys, trendsByModel) ==
    LET f == findFastest(keys, trendsByModel, "declining") IN
    [model |-> IF f.model = "" THEN "None" ELSE f.model, declineRate |-> f.rate]

MaxDate(h) == CHOOSE d \in {h[i].date : i \in 1..Len(h)} : \A i \in 1..Len(h) : h[i].date <= d
MinDate(h) == CHOOSE d \in {h[i].date : i \in 1..Len(h)} : \A i \in 1..Len(h) : h[i].date >= d

\* latestData.reduce((max, current) => current.percentage > max.percentage ? current : max)
RECURSIVE reduceMax(_)
reduceMax(s) ==
    IF Len(s) = 1 THEN s[1]
    ELSE LET max == reduceMax(SubSeq(s, 1, Len(s) - 1))
             current == s[Len(s)]
         IN  IF current.percentage > max.percentage THEN current ELSE max

findMarketLeaderAnyDate(h) ==
    IF Len(h) = 0 THEN [model |-> "None", marketShare |-> 0]
    ELSE [model |-> reduceMax(h).gpuModel, marketShare |-> reduceMax(h).percentage]

findMarketLeader(h) ==
    IF Len(h) = 0 THEN [model |-> "None", marketShare |-> 0]
    ELSE LET latestDate == MaxDate(h)
             latestData == SelectSeq(h, LAMBDA entry : entry.date = latestDate)
             leader == reduceMax(latestData)
         IN  [model |-> leader.gpuModel, marketShare |-> leader.percentage]

calculateTimeframeAlwaysPlural(h) ==
    IF Len(h) = 0 THEN "No data"
    ELSE LET monthsDiff == MaxDate(h) - MinDate(h)
         IN  IF monthsDiff < 1 THEN "Less than 1 month"
             ELSE IF monthsDiff < 12 THEN ToString(monthsDiff) \o " months"
             ELSE IF monthsDiff % 12 = 0 THEN ToString(monthsDiff \div 12) \o " years"
             ELSE ToString(monthsDiff \div 12) \o " years "
                  \o ToString(monthsDiff % 12) \o " months"

\* A date is its month number: getFullYear()*12 + getMonth().
calculateTimeframe(h) ==
    IF Len(h) = 0 THEN "No data"
    ELSE LET monthsDiff == MaxDate(h) - MinDate(h)
             years == monthsDiff \div 12
             remainingMonths == monthsDiff % 12
         IN  IF monthsDiff < 1 THEN "Less than 1 month"
             ELSE IF monthsDiff < 12 THEN ToString(monthsDiff) \o " months"
             ELSE IF remainingMonths = 0
                  THEN (IF years = 1 THEN "1 year" ELSE ToString(years) \o " years")
             ELSE ToString(years) \o " year" \o (IF years > 1 THEN "s" ELSE "") \o " "
                  \o ToString(remainingMonths) \o " month"
                  \o (IF remainingMonths > 1 THEN "s" ELSE "")

createEmptyTrendAnalysis ==
    [timeframe |-> "No data", growing |-> <<>>, declining |-> <<>>, stable |-> <<>>,
     fastestGrowth |-> [model |-> "None", growthRate |-> <<0, 1>>],
     fastestDecline |-> [model |-> "None", declineRate |-> <<0, 1>>],
     marketLeader |-> [model |-> "None", marketShare |-> 0]]

detectMarketTrendsThrows(h, w) == Len(h) # 0 /\ analyzeModelTrendsThrows(h, w)

detectMarketTrends(h, w) ==
    IF Len(h) = 0 THEN createEmptyTrendAnalysis
    ELSE LET trendsByModel == analyzeModelTrends(h, w)
             keys == modelKeys(h)
         IN  [timeframe |-> calculateTimeframe(h),
              growing |-> SelectSeq(keys, LAMBDA m : trendsByModel[m].direction = "growing"),
              declining |-> SelectSeq(keys, LAMBDA m : trendsByModel[m].direction = "declining"),
              stable |-> SelectSeq(keys, LAMBDA m : trendsByModel[m].direction = "stable"),
              fastestGrowth |-> findFastestGrowth(keys, trendsByModel),
              fastestDecline |-> findFastestDecline(keys, trendsByModel),
              marketLeader |-> findMarketLeader(h)]

\* The clamp without its upper limit: Math.max(0, p).
clampPercentageNoCeiling(p) == IF p[1] < 0 THEN <<0, 1>> ELSE p

\* Math.max(0, Math.min(100, p)) of the fraction p = n/d, in tenths of a point.
clampPercentage(p) ==
    IF p[1] < 0 THEN <<0, 1>>
    ELSE IF p[1] > 1000 * p[2] THEN <<1000, 1>>
    ELSE p

RECURSIVE predictModels(_, _, _)
predictModels(keys, h, months) ==
    IF Len(keys) = 0 THEN <<>>
    ELSE LET model == keys[Len(keys)]
             sortedPoints == sortByDate(groupByModel(h)[model])
             latestPoint == sortedPoints[Len(sortedPoints)]
             trendSlope == calculateTrendSlope(
                 calculateMovingAverages(sortedPoints, Min(6, Len(sortedPoints))))
             latestDate == MaxDate(h)
         IN  predictModels(SubSeq(keys, 1, Len(keys) - 1), h, months)
             \o [month \in 1..months |->
                    [gpuModel |-> model,
                     percentage |-> clampPercentage(
                         Frac(latestPoint.percentage * trendSlope[2] + trendSlope[1] * month,
                              trendSlope[2])),
                     date |-> latestDate + month]]

predictMarketEvolution(h, months) == predictModels(modelKeys(h), h, months)

(***************************************************************************)
(* Profile clusterer.  A cluster point or a centroid is                    *)
(*   [gpuPerformance, cpuPerformance, memoryTier, den, userId]:            *)
(* its coordinates are gpuPerformance/den, cpuPerformance/den and          *)
(* memoryTier/den.  A point has den = 1; a centroid that is the mean of a  *)
(* cluster holds the sums and den = cluster.length.                        *)
(***************************************************************************)

estimateGPUPerformance(gpuModel) ==
    LET model == toLowerCase(gpuModel) IN
    IF includes(model, "rtx 4090") THEN 100
    ELSE IF includes(model, "rtx 4080") THEN 95
    ELSE IF includes(model, "rtx 4070") THEN 85
    ELSE IF includes(model, "rtx 4060") THEN 75
    ELSE IF includes(model, "rtx 3090") THEN 90
    ELSE IF includes(model, "rtx 3080") THEN 88
    ELSE IF includes(model, "rtx 3070") THEN 80
    ELSE IF includes(model, "rtx 3060") THEN 70
    ELSE IF includes(model, "rx 7900") THEN 92
    ELSE IF includes(model, "rx 7800") THEN 82
    ELSE IF includes(model, "rx 7700") THEN 78
    ELSE IF includes(model, "rx 6900") THEN 85
    ELSE IF includes(model, "rx 6800") THEN 83
    ELSE IF includes(model, "rx 6700") THEN 75
    ELSE IF includes(model, "rx 6600") THEN 65
    ELSE IF includes(model, "gtx 1660") THEN 55
    ELSE IF includes(model, "gtx 1650") THEN 45
    ELSE IF includes(model, "gtx 1060") THEN 50
    ELSE 40

\* estimateCPUPerformance scoring an unrecognised processor 0.
estimateCPUPerformanceUnknownZero(cpuModel) ==
    LET model == toLowerCase(cpuModel) IN
    IF includes(model, "i9") \/ includes(model, "ryzen 9") THEN 95
    ELSE IF includes(model, "i7") \/ includes(model, "ryzen 7") THEN 85
    ELSE IF includes(model, "i5") \/ includes(model, "ryzen 5") THEN 75
    ELSE IF includes(model, "i3") \/ includes(model, "ryzen 3") THEN 60
    ELSE 0

estimateCPUPerformance(cpuModel) ==
    LET model == toLowerCase(cpuModel) IN
    IF includes(model, "i9") \/ includes(model, "ryzen 9") THEN 95
    ELSE IF includes(model, "i7") \/ includes(model, "ryzen 7") THEN 85
    ELSE IF includes(model, "i5") \/ includes(model, "ryzen 5") THEN 75
    ELSE IF includes(model, "i3") \/ includes(model, "ryzen 3") THEN 60
    ELSE 50

DigitValue(c) ==
    CASE c = "0" -> 0 [] c = "1" -> 1 [] c = "2" -> 2 [] c = "3" -> 3 [] c = "4" -> 4
      [] c = "5" -> 5 [] c = "6" -> 6 [] c = "7" -> 7 [] c = "8" -> 8 [] c = "9" -> 9
      [] OTHER -> -1

\* parseInt(memory.replace(/[^0-9]/g, ''), 10): the value of the digits of the
\* string, read in order; -1 stands for NaN (no digit at all).
RECURSIVE parseDigits(_, _)
parseDigits(s, acc) ==
    IF Len(s) = 0 THEN acc
    ELSE LET v == DigitValue(SubSeq(s, 1, 1))
             rest == SubSeq(s, 2, Len(s))
         IN  IF v < 0 THEN parseDigits(rest, acc)
             ELSE parseDigits(rest, (IF acc < 0 THEN 0 ELSE 10 * acc) + v)

\* Every comparison with NaN is false, so NaN falls through to 0.
parseMemoryTier(memory) ==
    LET memoryValue == parseDigits(memory, -1) IN
    IF memoryValue >= 32 THEN 4
    ELSE IF memoryValue >= 16 THEN 3
    ELSE IF memoryValue >= 8 THEN 2
    ELSE IF memoryValue >= 4 THEN 1
    ELSE 0

extractEntryPoints(entry, entryIndex) ==
    [gpuIndex \in 1..Len(entry.gpuDistribution) |->
        LET cpuModel ==
                IF gpuIndex <= Len(entry.cpuDistribution)
                THEN entry.cpuDistribution[gpuIndex].cpuModel
                ELSE IF Len(entry.cpuDistribution) > 0
                THEN entry.cpuDistribution[1].cpuModel
                ELSE "Unknown"
            memory ==
                IF Len(entry.vramDistribution) > 0
                THEN entry.vramDistribution[1].memory ELSE "8GB"
        IN  [gpuPerformance |-> estimateGPUPerformance(entry.gpuDistribution[gpuIndex].gpuModel),
             cpuPerformance |-> estimateCPUPerformance(IF cpuModel = "" THEN "Unknown" ELSE cpuModel),
             memoryTier |-> parseMemoryTier(memory),
             den |-> 1,
             userId |-> ToString(entryIndex - 1) \o "-" \o ToString(gpuIndex - 1)]]

RECURSIVE extractClusterPointsFrom(_, _)
extractClusterPointsFrom(data, n) ==
    IF n = 0 THEN <<>>
    ELSE extractClusterPointsFrom(data, n - 1) \o extractEntryPoints(data[n], n)

extractClusterPoints(data) == extractClusterPointsFrom(data, Len(data))

\* The SQUARE of the Euclidean distance, as a fraction <<N, D>> (not reduced).
calculateDistanceSq(point1, point2) ==
    LET gpuDiff == point1.gpuPerformance * point2.den - point2.gpuPerformance * point1.den
        cpuDiff == point1.cpuPerformance * point2.den - point2.cpuPerformance * point1.den
        memoryDiff == point1.memoryTier * point2.den - point2.memoryTier * point1.den
        d == point1.den * point2.den
    IN  <<gpuDiff * gpuDiff + cpuDiff * cpuDiff + memoryDiff * memoryDiff, d * d>>

\* The index of the closest centroid: the first one of least distance
\* (a later centroid wins only when strictly closer).
RECURSIVE closestCentroidIndex(_, _, _)
closestCentroidIndex(point, cs, n) ==
    IF n = 1 THEN 1
    ELSE LET best == closestCentroidIndex(point, cs, n - 1) IN
         IF FracLess(calculateDistanceSq(point, cs[n]), calculateDistanceSq(point, cs[best]))
         THEN n ELSE best

\* With no centroid at all, centroids[0] is undefined and calculateDistance
\* throws a TypeError at the first point.
assignPointsToClustersThrows(pts, cs) == Len(pts) > 0 /\ Len(cs) = 0

assignPointsToClustersDropLast(pts, cs) ==
    [i \in 1..Len(cs) |->
        SelectSeq(SubSeq(pts, 1, Len(pts) - 1),
                  LAMBDA point : closestCentroidIndex(point, cs, Len(cs)) = i)]

assignPointsToClusters(pts, cs) ==
    [i \in 1..Len(cs) |->
        SelectSeq(pts, LAMBDA point : closestCentroidIndex(point, cs, Len(cs)) = i)]

RECURSIVE SumField(_, _)
SumField(s, field) ==
    IF Len(s) = 0 THEN 0 ELSE s[1][field] + SumField(SubSeq(s, 2, Len(s)), field)

calculateNewCentroids(cls) ==
    [index \in 1..Len(cls) |->
        IF Len(cls[index]) = 0
        THEN [gpuPerformance |-> 0, cpuPerformance |-> 0, memoryTier |-> 0, den |-> 1,
              userId |-> "empty-centroid-" \o ToString(index - 1)]
        ELSE [gpuPerformance |-> SumField(cls[index], "gpuPerformance"),
              cpuPerformance |-> SumField(cls[index], "cpuPerformance"),
              memoryTier |-> SumField(cls[index], "memoryTier"),
              den |-> Len(cls[index]),
              userId |-> "centroid-" \o ToString(index - 1)]]

\* centroidsConverged never reporting convergence.
centroidsConvergedNever(old, new) == FALSE

\* distance > tolerance (1e-4) iff distance^2 = N/D > 1e-8 iff N > D \div 10^8
\* (N is an integer).
centroidsConverged(old, new) ==
    /\ Len(old) = Len(new)
    /\ \A i \in 1..Len(old) :
          LET dist == calculateDistanceSq(old[i], new[i]) IN
          ~(dist[1] > dist[2] \div 100000000)

maxIterations == 100

\* initializeCentroids, given the index Math.random() yields for each centroid.
initializeCentroids(pts, kk, randomIndex) ==
    [i \in 1..kk |->
        [pts[randomIndex[i]] EXCEPT !.userId = "centroid-" \o ToString(i - 1)]]

\* The for loop of performKMeansClustering from the pass `it` on (k >= 1): the
\* clusters it returns.
RECURSIVE kMeansLoop(_, _, _)
kMeansLoop(pts, cs, it) ==
    LET assigned == assignPointsToClusters(pts, cs)
        newCentroids == calculateNewCentroids(assigned)
    IN  IF centroidsConverged(cs, newCentroids) \/ it + 1 >= maxIterations
        THEN assigned
        ELSE kMeansLoop(pts, newCentroids, it + 1)

getClusterName(avgPerformance) ==
    IF avgPerformance[1] >= 80 * avgPerformance[2] THEN "Enthusiast Gamers"
    ELSE IF avgPerformance[1] >= 60 * avgPerformance[2] THEN "High-End Users"
    ELSE IF avgPerformance[1] >= 40 * avgPerformance[2] THEN "Mid-Range Gaming"
    ELSE IF avgPerformance[1] >= 20 * avgPerformance[2] THEN "Budget Gaming"
    ELSE "Entry-Level Users"

\* percentage || 1
OrOne(percentage) == IF percentage = 0 THEN 1 ELSE percentage

RECURSIVE SumWeights(_)
SumWeights(items) ==
    IF Len(items) = 0 THEN 0
    ELSE OrOne(items[1].percentage) + SumWeights(SubSeq(items, 2, Len(items)))

RECURSIVE totalUsersOf(_)
totalUsersOf(data) ==
    IF Len(data) = 0 THEN 0
    ELSE SumWeights(data[1].gpuDistribution) + totalUsersOf(SubSeq(data, 2, Len(data)))

RECURSIVE AllItems(_, _)
AllItems(data, field) ==
    IF Len(data) = 0 THEN <<>> ELSE data[1][field] \o AllItems(SubSeq(data, 2, Len(data)), field)

\* The keys of the counts object in insertion order.
RECURSIVE nameKeys(_)
nameKeys(items) ==
    IF Len(items) = 0 THEN <<>>
    ELSE LET rest == nameKeys(SubSeq(items, 1, Len(items) - 1))
             name == items[Len(items)].name
         IN  IF \E i \in 1..Len(rest) : rest[i] = name THEN rest ELSE Append(rest, name)

\* Object.entries(counts).sort(([, a], [, b]) => b - a): stable, descending.
RECURSIVE sortByCountDesc(_)
sortByCountDesc(s) ==
    IF Len(s) <= 1 THEN s
    ELSE LET rest == sortByCountDesc(SubSeq(s, 1, Len(s) - 1))
             x == s[Len(s)]
             pos == Cardinality({i \in 1..Len(rest) : rest[i].count >= x.count})
         IN  SubSeq(rest, 1, pos) \o <<x>> \o SubSeq(rest, pos + 1, Len(rest))

\* items: a sequence of [name, percentage]; the three names of greatest weight.
topThree(items) ==
    LET keys == nameKeys(items)
        counted == [i \in 1..Len(keys) |->
                      [name |-> keys[i],
                       count |-> SumWeights(SelectSeq(items, LAMBDA it : it.name = keys[i]))]]
        sorted == sortByCountDesc(counted)
    IN  [i \in 1..Min(3, Len(sorted)) |-> sorted[i].name]

extractCommonGPUs(cluster, data) ==
    LET gpus == AllItems(data, "gpuDistribution") IN
    topThree([i \in 1..Len(gpus) |->
                 [name |-> gpus[i].gpuModel, percentage |-> gpus[i].percentage]])

extractCommonCPUs(cluster, data) ==
    LET cpus == AllItems(data, "cpuDistribution") IN
    topThree([i \in 1..Len(cpus) |->
                 [name |-> cpus[i].cpuModel, percentage |-> cpus[i].percentage]])

\* The .map() of formatClusters: one record per cluster, empty ones included.
mapClusters(cls, data) ==
    [index \in 1..Len(cls) |->
        LET cluster == cls[index]
            avgPerformance ==
                IF Len(cluster) > 0
                THEN Frac(SumField(cluster, "gpuPerformance")
                          + SumField(cluster, "cpuPerformance"), Len(cluster) * 2)
                ELSE <<0, 1>>
            totalUsers == totalUsersOf(data)
        IN  [id |-> "cluster-" \o ToString(index - 1),
             name |-> getClusterName(avgPerformance),
             avgPerformanceScore |-> avgPerformance,
             commonGPUs |-> extractCommonGPUs(cluster, data),
             commonCPUs |-> extractCommonCPUs(cluster, data),
             userCount |-> Len(cluster),
             percentage |-> IF totalUsers > 0
                            THEN Frac(Len(cluster) * 100, totalUsers) ELSE <<0, 1>>]]

\* formatClusters without the filter on userCount.
formatClustersNoFilter(cls, data) == mapClusters(cls, data)

formatClusters(cls, data) ==
    SelectSeq(mapClusters(cls, data), LAMBDA cluster : cluster.userCount > 0)

(***************************************************************************)
(* Values the variables of the components not under study rest at.         *)
(***************************************************************************)
NoGPU == [performanceScore |-> 0, vram |-> 0, architecture |-> ""]
NoCPU == [performanceScore |-> 0, cores |-> 0, threads |-> 0, baseFreq |-> 0,
          boostFreq |-> 0, manufacturer |-> ""]
NoGame == [name |-> "", recommendedVRAM |-> 0]
NoAnalysis ==
    [configuration |-> [gpu |-> NoGPU, cpu |-> NoCPU], targetGame |-> NoGame,
     bottleneckType |-> "", performanceScore |-> 0, expectedFPS |-> 0,
     recommendations |-> <<>>, upgradeOptions |-> <<>>]

BottleneckIdle ==
    /\ gpu = NoGPU /\ cpu = NoCPU /\ targetGame = NoGame /\ analysis = NoAnalysis
ClassifyIdle == subScores = <<0, 0, 0>> /\ bottleneckType = ""
TrendIdle ==
    /\ historical = <<>> /\ window = 0 /\ monthsAhead = 0
    /\ trends = createEmptyTrendAnalysis /\ predictions = <<>>
NotFound == "undefined"
LookupIdle == partialName = "" /\ found = NotFound
TransformIdle == callerArray = <<>> /\ transformed = <<>>
TablesIdle == specTable = <<>> /\ benchmarks = <<>> /\ answer = <<>>
IngestIdle ==
    /\ rawData = [type |-> "undefined"] /\ result = [state |-> "pending"]
    /\ rawDataArray = <<>> /\ settled = <<>> /\ order = <<>> /\ batch = [state |-> "pending"]
ClusterIdle ==
    /\ surveyData = <<>> /\ k = 0 /\ points = <<>> /\ centroids = <<>>
    /\ clusters = <<>> /\ iteration = 0 /\ userClusters = <<>>

(***************************************************************************)
(* The records GPUDatabase.initialize() adds, in order, with the fields    *)
(* the scorer reads (vram in quarter gigabytes).                           *)
(***************************************************************************)
gpuRecords ==
    <<
       [model |-> "RTX 4090", performanceScore |-> 100, vram |-> 96, architecture |-> "Ada Lovelace"],
       [model |-> "RTX 4080", performanceScore |-> 85, vram |-> 64, architecture |-> "Ada Lovelace"],
       [model |-> "RTX 4070 Ti", performanceScore |-> 75, vram |-> 48, architecture |-> "Ada Lovelace"],
       [model |-> "RTX 4070", performanceScore |-> 65, vram |-> 48, architecture |-> "Ada Lovelace"],
       [model |-> "RTX 4060 Ti", performanceScore |-> 55, vram |-> 32, architecture |-> "Ada Lovelace"],
       [model |-> "RTX 4060", performanceScore |-> 45, vram |-> 32, architecture |-> "Ada Lovelace"],
       [model |-> "RTX 3090", performanceScore |-> 90, vram |-> 96, architecture |-> "Ampere"],
       [model |-> "RTX 3080", performanceScore |-> 80, vram |-> 40, architecture |-> "Ampere"],
       [model |-> "RTX 3070", performanceScore |-> 70, vram |-> 32, architecture |-> "Ampere"],
       [model |-> "RTX 3060 Ti", performanceScore |-> 60, vram |-> 32, architecture |-> "Ampere"],
       [model |-> "RTX 3060", performanceScore |-> 50, vram |-> 48, architecture |-> "Ampere"],
       [model |-> "RX 7900 XTX", performanceScore |-> 88, vram |-> 96, architecture |-> "RDNA 3"],
       [model |-> "RX 7900 XT", performanceScore |-> 78, vram |-> 80, architecture |-> "RDNA 3"],
       [model |-> "RX 7800 XT", performanceScore |-> 68, vram |-> 64, architecture |-> "RDNA 3"],
       [model |-> "RX 7700 XT", performanceScore |-> 58, vram |-> 48, architecture |-> "RDNA 3"],
       [model |-> "RX 6900 XT", performanceScore |-> 82, vram |-> 64, architecture |-> "RDNA 2"],
       [model |-> "RX 6800 XT", performanceScore |-> 75, vram |-> 64, architecture |-> "RDNA 2"],
       [model |-> "RX 6700 XT", performanceScore |-> 62, vram |-> 48, architecture |-> "RDNA 2"],
       [model |-> "RX 6600 XT", performanceScore |-> 48, vram |-> 32, architecture |-> "RDNA 2"],
       [model |-> "Intel Arc A770", performanceScore |-> 52, vram |-> 64, architecture |-> "Xe HPG"],
       [model |-> "Intel Arc A750", performanceScore |-> 46, vram |-> 32, architecture |-> "Xe HPG"] >>

(***************************************************************************)
(* calculateBottleneck applied to the arguments drawn by the initial state.*)
(***************************************************************************)
GPUs ==
    [performanceScore : {0, 10, 30, 50, 85, 100},
     vram : {2, 3, 4, 8, 16, 32, 48, 96},      \* 0.5 GB .. 24 GB
     architecture : {"Ada Lovelace", "Ampere", "RDNA 3", "Pascal"}]

\* cores, threads, base and boost frequency (tenths of a GHz)
CPUShapes == {<<2, 2, 30, 35>>, <<4, 8, 36, 42>>, <<8, 16, 47, 57>>, <<16, 24, 34, 54>>}

CPUs ==
    {[performanceScore |-> p, cores |-> sh[1], threads |-> sh[2], baseFreq |-> sh[3],
      boostFreq |-> sh[4], manufacturer |-> m] :
        p \in {0, 15, 35, 70, 90, 92, 100}, sh \in CPUShapes, m \in {"Intel", "AMD"}}

Games ==
    [name : {"Cyberpunk 2077", "Valorant", "Test Game"}, recommendedVRAM : {0, 1, 2, 16, 32, 64}]

\* the records of the specification table as arguments of the scorer
TableGPUs ==
    { [performanceScore |-> gpuRecords[i].performanceScore, vram |-> gpuRecords[i].vram,
       architecture |-> gpuRecords[i].architecture] : i \in 1..Len(gpuRecords) }

InitBottleneck ==
    /\ pc = "input"
    /\ gpu \in GPUs \cup TableGPUs /\ cpu \in CPUs /\ targetGame \in Games
    /\ analysis = NoAnalysis
    /\ ClassifyIdle /\ TrendIdle /\ ClusterIdle /\ LookupIdle /\ IngestIdle
    /\ TransformIdle /\ TablesIdle

CalculateBottleneck ==
    /\ pc = "input"
    /\ analysis' = calculateBottleneck(gpu, cpu, targetGame)
    /\ pc' = "done"
    /\ UNCHANGED <<gpu, cpu, targetGame, dtVars, trVars, clVars, dbVars, inVars, agVars, tbVars>>

NextBottleneck == CalculateBottleneck

SpecBottleneck == InitBottleneck /\ [][NextBottleneck]_vars

(***************************************************************************)
(* determineBottleneckType applied to a grid of sub-score triples          *)
(* (hundredths of a point; steps of 5 points, so that differences of       *)
(* exactly 15 and scores of exactly 80 occur).                             *)
(***************************************************************************)
ScoreGrid == {500 * i : i \in 0..20}

InitClassify ==
    /\ pc = "input"
    /\ subScores \in ScoreGrid \X ScoreGrid \X ScoreGrid
    /\ bottleneckType = ""
    /\ BottleneckIdle /\ TrendIdle /\ ClusterIdle /\ LookupIdle /\ IngestIdle
    /\ TransformIdle /\ TablesIdle

DetermineBottleneckType ==
    /\ pc = "input"
    /\ bottleneckType' = determineBottleneckType(subScores[1], subScores[2], subScores[3])
    /\ pc' = "done"
    /\ UNCHANGED <<subScores, bnVars, trVars, clVars, dbVars, inVars, agVars, tbVars>>

NextClassify == DetermineBottleneckType

SpecClassify == InitClassify /\ [][NextClassify]_vars

(***************************************************************************)
(* The trend detector applied to observation lists drawn by the initial    *)
(* state.  Percentages are in tenths of a point.                           *)
(***************************************************************************)
MaxLen == 4          \* observations of the first model in a two-model list
MaxSeriesLen == 7    \* observations in a single-model series
MaxMonths == 2       \* monthsAhead
DefaultWindow == 6

Reverse(s) == [i \in 1..Len(s) |-> s[Len(s) + 1 - i]]

\* The observations of one model, one a month from month 1 on.
Observations(model, percentages) ==
    [i \in 1..Len(percentages) |->
        [gpuModel |-> model, percentage |-> percentages[i], date |-> i]]

SeqsUpTo(values, n) == UNION {[1..m -> values] : m \in 0..n}

\* Series of the second model: none, a single observation, a confident rise,
\* a confident fall, a steeper rise of low confidence, a flat series.
RivalSeries ==
    { <<>>, <<100>>, <<0, 100, 100, 200>>, <<200, 100, 100, 0>>,
      <<0, 200, 0, 200>>, <<100, 100, 100>>, <<0, 50, 50, 100>> }

\* Two models, in input order (first model, then second, each by date) or in
\* the reverse order (second model first, each latest first).
TwoModelInputs ==
    { IF rev THEN Reverse(h) ELSE h :
        h \in { Observations("RTX 4070", a) \o Observations("GTX 1660", b) :
                  a \in SeqsUpTo({0, 50, 100}, MaxLen), b \in RivalSeries },
        rev \in BOOLEAN }

\* The percentages reached from `start` by the steps, in order.
RECURSIVE Walk(_, _)
Walk(start, steps) ==
    IF Len(steps) = 0 THEN <<start>>
    ELSE <<start>> \o Walk(start + steps[1], SubSeq(steps, 2, Len(steps)))

InRange(percentages) == \A i \in 1..Len(percentages) : percentages[i] \in 0..1000

\* A single model whose share moves by 0.1 or 0.2 points a month.
SeriesInputs ==
    { IF rev THEN Reverse(h) ELSE h :
        h \in { Observations("RTX 4070", Walk(start, steps)) :
                  start \in {8, 500, 992},
                  steps \in { st \in SeqsUpTo({-2, -1, 1, 2}, MaxSeriesLen - 1) :
                                 \A i \in 1..(Len(st) - 1) : (st[i] > 0) = (st[i + 1] > 0) } },
        rev \in BOOLEAN }

\* The survey example of six rising months, and shares that jump between 0 and 100.
ExampleInputs ==
    { Observations("RTX 4070", a) :
        a \in { <<50, 70, 100, 130, 160, 200>>,
                <<200, 180, 150, 120, 100, 80>>,
                <<0, 0, 0, 0, 0, 0, 1000>>, <<1000, 1000, 0, 0, 0, 0, 0>>,
                <<0, 0, 0, 500, 1000, 1000, 1000>> } }

\* Near-flat series of one model: `low` months at 50.0, then `mid` months at
\* 50.3, then `high` months at 50.6 (or the same latest first), and two series
\* that waver without a direction.
MaxFlatLen == 10
FlatInputs ==
    { IF rev THEN Reverse(h) ELSE h :
        h \in { Observations("RTX 4070",
                     [i \in 1..(c[1] + c[2] + c[3]) |->
                         IF i <= c[1] THEN 500 ELSE IF i <= c[1] + c[2] THEN 503 ELSE 506]) :
                  c \in { t \in (0..MaxFlatLen) \X (0..MaxFlatLen) \X (0..MaxFlatLen) :
                             t[1] + t[2] + t[3] \in 1..MaxFlatLen } },
        rev \in BOOLEAN }
    \cup { Observations("RTX 4070", a) :
              a \in { <<500, 506, 500, 506>>, <<503, 500, 506, 503, 500, 506>> } }

\* Two observations of one model, MaxSpan months apart at most, in either order.
MaxSpan == 38

SpanInputs ==
    { IF rev THEN Reverse(h) ELSE h :
        h \in { << [gpuModel |-> "RTX 4070", percentage |-> 100, date |-> 1],
                   [gpuModel |-> "RTX 4070", percentage |-> 120, date |-> 1 + d] >> :
                 d \in 0..MaxSpan },
        rev \in BOOLEAN }

InitTrend ==
    /\ pc = "input"
    /\ historical \in { h \in TwoModelInputs \cup SeriesInputs \cup ExampleInputs
                               \cup FlatInputs \cup SpanInputs :
                          \A i \in 1..Len(h) : h[i].percentage \in 0..1000 }
    /\ window = 0 /\ monthsAhead = 0
    /\ trends = createEmptyTrendAnalysis /\ predictions = <<>>
    /\ BottleneckIdle /\ ClassifyIdle /\ ClusterIdle /\ LookupIdle /\ IngestIdle
    /\ TransformIdle /\ TablesIdle

\* detectMarketTrends(historical, w), which returns a summary or throws.
DetectMarketTrends ==
    /\ pc = "input"
    /\ \E w \in {0, 1, 3, DefaultWindow} :
          /\ window' = w
          /\ IF detectMarketTrendsThrows(historical, w)
             THEN pc' = "threw" /\ UNCHANGED trends
             ELSE pc' = "detected" /\ trends' = detectMarketTrends(historical, w)
    /\ UNCHANGED <<historical, monthsAhead, predictions, bnVars, dtVars, clVars, dbVars, inVars, agVars, tbVars>>

PredictMarketEvolution ==
    /\ pc = "input"
    /\ \E m \in 1..MaxMonths :
          /\ monthsAhead' = m
          /\ predictions' = predictMarketEvolution(historical, m)
    /\ pc' = "predicted"
    /\ UNCHANGED <<historical, window, trends, bnVars, dtVars, clVars, dbVars, inVars, agVars, tbVars>>

NextTrend == DetectMarketTrends \/ PredictMarketEvolution

SpecTrend == InitTrend /\ [][NextTrend]_vars

(***************************************************************************)
(* clusterUserProfiles as a state machine: the call, the random choice of  *)
(* the initial centroids, the assign/update iterations, the formatting.    *)
(***************************************************************************)
MaxEntries == 2      \* survey entries in the input
MaxK == 3            \* the cluster count asked for

\* Survey entries: no GPU at all; a GPU with neither CPU nor VRAM data; more
\* GPUs than CPUs; as many CPUs as GPUs; an unknown GPU with an empty CPU name,
\* a zero share and a memory label without digits.
SampleEntries ==
    { [gpuDistribution |-> <<>>,
       cpuDistribution |-> <<[cpuModel |-> "i9-13900K", percentage |-> 25]>>,
       vramDistribution |-> <<[memory |-> "16GB", percentage |-> 40]>>],
      [gpuDistribution |-> <<[gpuModel |-> "RTX 4090", percentage |-> 30]>>,
       cpuDistribution |-> <<>>,
       vramDistribution |-> <<>>],
      [gpuDistribution |-> <<[gpuModel |-> "NVIDIA GeForce RTX 4090", percentage |-> 30],
                             [gpuModel |-> "GTX 1650", percentage |-> 20]>>,
       cpuDistribution |-> <<[cpuModel |-> "i9-13900K", percentage |-> 25]>>,
       vramDistribution |-> <<[memory |-> "16GB", percentage |-> 40]>>],
      [gpuDistribution |-> <<[gpuModel |-> "GTX 1650", percentage |-> 20],
                             [gpuModel |-> "Iris Xe", percentage |-> 10]>>,
       cpuDistribution |-> <<[cpuModel |-> "i9-13900K", percentage |-> 25],
                             [cpuModel |-> "AMD Ryzen 3 3100", percentage |-> 10]>>,
       vramDistribution |-> <<[memory |-> "4 GB", percentage |-> 40]>>],
      [gpuDistribution |-> <<[gpuModel |-> "Iris Xe", percentage |-> 0]>>,
       cpuDistribution |-> <<[cpuModel |-> "", percentage |-> 0]>>,
       vramDistribution |-> <<[memory |-> "shared", percentage |-> 100]>>] }

InitCluster ==
    /\ pc = "input"
    /\ surveyData \in SeqsUpTo(SampleEntries, MaxEntries)
    /\ k \in 0..MaxK
    /\ points = <<>> /\ centroids = <<>> /\ clusters = <<>>
    /\ iteration = 0 /\ userClusters = <<>>
    /\ BottleneckIdle /\ ClassifyIdle /\ TrendIdle /\ LookupIdle /\ IngestIdle
    /\ TransformIdle /\ TablesIdle

\* clusterUserProfiles up to the call of performKMeansClustering.
ClusterUserProfiles ==
    /\ pc = "input"
    /\ IF Len(surveyData) = 0
       THEN /\ pc' = "done"
            /\ UNCHANGED <<points, userClusters>>
       ELSE /\ points' = extractClusterPoints(surveyData)
            /\ pc' = IF Len(points') = 0 THEN "done" ELSE "init"
            /\ UNCHANGED userClusters
    /\ UNCHANGED <<surveyData, k, centroids, clusters, iteration, bnVars, dtVars, trVars, dbVars, inVars, agVars, tbVars>>

\* initializeCentroids: each centroid is a copy of a point picked at random
\* (with replacement), renamed centroid-i.
InitializeCentroids ==
    /\ pc = "init"
    /\ \E randomIndex \in [1..k -> 1..Len(points)] :
          centroids' = initializeCentroids(points, k, randomIndex)
    /\ iteration' = 0
    /\ pc' = "loop"
    /\ UNCHANGED <<surveyData, k, points, clusters, userClusters, bnVars, dtVars, trVars, dbVars, inVars, agVars, tbVars>>

\* One pass of the for loop of performKMeansClustering.
KMeansIteration ==
    /\ pc = "loop"
    /\ IF assignPointsToClustersThrows(points, centroids)
       THEN /\ pc' = "threw"
            /\ UNCHANGED <<centroids, clusters, iteration>>
       ELSE LET assigned == assignPointsToClusters(points, centroids)
                newCentroids == calculateNewCentroids(assigned)
            IN  /\ clusters' = assigned
                /\ IF centroidsConverged(centroids, newCentroids)
                   THEN /\ pc' = "format"
                        /\ UNCHANGED <<centroids, iteration>>
                   ELSE /\ centroids' = newCentroids
                        /\ iteration' = iteration + 1
                        /\ pc' = IF iteration + 1 < maxIterations THEN "loop" ELSE "format"
    /\ UNCHANGED <<surveyData, k, points, userClusters, bnVars, dtVars, trVars, dbVars, inVars, agVars, tbVars>>

FormatClusters ==
    /\ pc = "format"
    /\ userClusters' = formatClusters(clusters, surveyData)
    /\ pc' = "done"
    /\ UNCHANGED <<surveyData, k, points, centroids, clusters, iteration,
                   bnVars, dtVars, trVars, dbVars, inVars, agVars, tbVars>>

NextCluster ==
    ClusterUserProfiles \/ InitializeCentroids \/ KMeansIteration \/ FormatClusters

SpecCluster == InitCluster /\ [][NextCluster]_vars

(***************************************************************************)
(* GPUDatabase: the specification table and the lookup by name.  The table *)
(* is a Map keyed by model; only its keys, in insertion order, matter to   *)
(* the lookup, so an entry is represented by its model.  Strings are       *)
(* processed character by character as the String methods do.              *)
(***************************************************************************)
UpperCaseLetters == "ABCDEFGHIJKLMNOPQRSTUVWXYZ"
LowerCaseLetters == "abcdefghijklmnopqrstuvwxyz"

CharAt(s, i) == SubSeq(s, i, i)

LetterIndex(alphabet, c) ==
    IF \E i \in 1..Len(alphabet) : CharAt(alphabet, i) = c
    THEN CHOOSE i \in 1..Len(alphabet) : CharAt(alphabet, i) = c
    ELSE 0

RECURSIVE MapChars(_, _, _)
MapChars(s, from, to) ==
    IF Len(s) = 0 THEN ""
    ELSE LET c == CharAt(s, 1)
             i == LetterIndex(from, c)
         IN (IF i = 0 THEN c ELSE CharAt(to, i)) \o MapChars(SubSeq(s, 2, Len(s)), from, to)

toUpperCase(s) == MapChars(s, LowerCaseLetters, UpperCaseLetters)

RECURSIVE trimStart(_)
trimStart(s) ==
    IF Len(s) > 0 /\ CharAt(s, 1) = " " THEN trimStart(SubSeq(s, 2, Len(s))) ELSE s

RECURSIVE trimEnd(_)
trimEnd(s) ==
    IF Len(s) > 0 /\ CharAt(s, Len(s)) = " " THEN trimEnd(SubSeq(s, 1, Len(s) - 1)) ELSE s

trim(s) == trimEnd(trimStart(s))

\* the keys of gpuSpecs in the order initialize() inserts them
gpuSpecs ==
    << "RTX 4090", "RTX 4080", "RTX 4070 Ti", "RTX 4070", "RTX 4060 Ti", "RTX 4060",
       "RTX 3090", "RTX 3080", "RTX 3070", "RTX 3060 Ti", "RTX 3060",
       "RX 7900 XTX", "RX 7900 XT", "RX 7800 XT", "RX 7700 XT",
       "RX 6900 XT", "RX 6800 XT", "RX 6700 XT", "RX 6600 XT",
       "Intel Arc A770", "Intel Arc A750" >>

fuzzyMatch(model, normalized) ==
    includes(toLowerCase(model), normalized) \/ includes(normalized, toLowerCase(model))

findGPUByName(name) ==
    LET normalized == trim(toLowerCase(name))
        hits == { i \in 1..Len(gpuSpecs) : fuzzyMatch(gpuSpecs[i], normalized) }
    IN IF \E i \in 1..Len(gpuSpecs) : gpuSpecs[i] = name
       THEN name
       ELSE IF hits = {} THEN NotFound
       ELSE gpuSpecs[CHOOSE i \in hits : \A j \in hits : i <= j]

\* the case variants of a stored model, and the other names the callers pass
swapCase(s) ==
    MapChars(s, UpperCaseLetters \o LowerCaseLetters, LowerCaseLetters \o UpperCaseLetters)

CaseVariants(model) == { model, toLowerCase(model), toUpperCase(model), swapCase(model) }

LookupNames ==
    UNION { CaseVariants(gpuSpecs[i]) : i \in 1..Len(gpuSpecs) }
    \cup { "4090", "NonExistent GPU", "", "  rtx 3080  ", "NVIDIA GeForce RTX 4070", "Arc",
           "rtx", "7900", "A750" }

InitLookup ==
    /\ pc = "input"
    /\ partialName \in LookupNames
    /\ found = NotFound
    /\ BottleneckIdle /\ ClassifyIdle /\ TrendIdle /\ ClusterIdle /\ IngestIdle
    /\ TransformIdle /\ TablesIdle

FindGPUByName ==
    /\ pc = "input"
    /\ found' = findGPUByName(partialName)
    /\ pc' = "done"
    /\ UNCHANGED <<partialName, bnVars, dtVars, trVars, clVars, inVars, agVars, tbVars>>

NextLookup == FindGPUByName

SpecLookup == InitLookup /\ [][NextLookup]_vars

(***************************************************************************)
(* DataIngestion.processSurveyData with the validator and the normaliser   *)
(* it calls.  A JavaScript value is a record carrying its typeof; an       *)
(* object literal is the sequence of its entries in insertion order.       *)
(* Percentages are in tenths of a point, a Date is the sequence holding    *)
(* its day number, empty for an invalid Date.  An accessor property of the *)
(* raw object may throw when it is read: throwsAt names the step that      *)
(* reads it first ("never" for a plain object).                            *)
(***************************************************************************)
\* Date.parse on the date strings of the inputs: the day number, or none for NaN
DateParse(text) ==
    CASE text = "2023-06-01" -> <<19509>>
      [] text = "2024-01-15" -> <<19737>>
      [] OTHER -> <<>>

RECURSIVE Flatten(_)
Flatten(seqs) == IF seqs = <<>> THEN <<>> ELSE Head(seqs) \o Flatten(Tail(seqs))

\* Number.prototype.toFixed(2) of a non-negative total given in tenths
toFixed(tenths) == ToString(tenths \div 10) \o "." \o ToString(tenths % 10) \o "0"

PercentageInRange(p) == p.type = "number" /\ p.value >= 0 /\ p.value <= 1000

validateDataSection(section, sectionName) ==
    IF section.type # "object"
    THEN [errors |-> <<sectionName \o " section must be an object">>, warnings |-> <<>>]
    ELSE IF section.entries = <<>>
    THEN [errors |-> <<>>, warnings |-> <<sectionName \o " section is empty">>]
    ELSE
        LET entries == section.entries
            name(i) == sectionName \o "." \o entries[i].key
            entryErrors(i) ==
                LET value == entries[i].value IN
                IF value.type # "object" THEN << name(i) \o " must be an object" >>
                ELSE (IF value.percentage.type # "number"
                      THEN << name(i) \o ".percentage must be a number" >>
                      ELSE IF ~PercentageInRange(value.percentage)
                      THEN << name(i) \o ".percentage must be between 0 and 100" >>
                      ELSE <<>>)
                     \o (IF value.change.type \notin {"undefined", "number"}
                         THEN << name(i) \o ".change must be a number" >>
                         ELSE <<>>)
            totalPercentage ==
                SumSeq([i \in 1..Len(entries) |->
                          IF entries[i].value.type = "object" /\ PercentageInRange(entries[i].value.percentage)
                          THEN entries[i].value.percentage.value ELSE 0])
        IN [errors |-> Flatten([i \in 1..Len(entries) |-> entryErrors(i)]),
            warnings |-> IF Abs(totalPercentage - 1000) > 50
                         THEN << sectionName \o " total percentage is "
                                   \o toFixed(totalPercentage) \o "%, expected ~100%" >>
                         ELSE <<>>]

validateSteamSurveyData(data) ==
    IF data.type # "object"
    THEN [isValid |-> FALSE, errors |-> <<"Data must be an object">>, warnings |-> <<>>]
    ELSE
        LET dateErrors ==
                IF data.surveyDate.type = "undefined" \/ data.surveyDate.value = ""
                THEN <<"Missing surveyDate field">>
                ELSE IF data.surveyDate.type # "string"
                THEN <<"surveyDate must be a string">>
                ELSE IF DateParse(data.surveyDate.value) = <<>>
                THEN <<"surveyDate must be a valid date string">>
                ELSE <<>>
            participantErrors ==
                IF data.totalParticipants.type # "number"
                THEN <<"totalParticipants must be a number">>
                ELSE IF data.totalParticipants.value <= 0
                THEN <<"totalParticipants must be greater than 0">>
                ELSE <<>>
            sections ==
                << validateDataSection(data.graphics, "graphics"),
                   validateDataSection(data.processors, "processors"),
                   validateDataSection(data.memory, "memory"),
                   validateDataSection(data.resolution, "resolution") >>
            errors == dateErrors \o participantErrors
                        \o Flatten([i \in 1..4 |-> sections[i].errors])
        IN [isValid |-> Len(errors) = 0, errors |-> errors,
            warnings |-> Flatten([i \in 1..4 |-> sections[i].warnings])]

\* cleanGPUName and cleanCPUName on the keys of the inputs
cleanGPUName(gpuName) ==
    CASE gpuName = "NVIDIA GeForce RTX 4090" -> "RTX 4090"
      [] gpuName = " AMD  Radeon RX 7900 XT " -> "RX 7900 XT"
      [] OTHER -> trim(gpuName)

cleanCPUName(cpuName) ==
    CASE cpuName = "Intel(R) Core(TM) i7-12700K @ 3.60GHz" -> "Intel Core i7-12700K"
      [] OTHER -> trim(cpuName)

\* the name of an item (gpuModel, cpuModel, resolution, memory) is its field model
normalizeSurveyEntry(data) ==
    LET date == DateParse(data.surveyDate.value)
        normalize(section, clean(_)) ==
            [i \in 1..Len(section.entries) |->
                [model |-> clean(section.entries[i].key),
                 percentage |-> section.entries[i].value.percentage,
                 date |-> date]]
        same(key) == key
    IN [date |-> date,
        gpuDistribution |-> normalize(data.graphics, cleanGPUName),
        cpuDistribution |-> normalize(data.processors, cleanCPUName),
        resolutionData |-> normalize(data.resolution, same),
        vramDistribution |-> normalize(data.memory, same)]

validateMarketShareArray(distribution, distributionName) ==
    IF distribution = <<>>
    THEN [errors |-> <<>>, warnings |-> << distributionName \o " is empty" >>]
    ELSE
        LET name(i) == distributionName \o "[" \o ToString(i - 1) \o "]"
            itemErrors(i) ==
                (IF distribution[i].percentage.type # "number"
                 THEN << name(i) \o ".percentage must be a number" >>
                 ELSE IF ~PercentageInRange(distribution[i].percentage)
                 THEN << name(i) \o ".percentage must be between 0 and 100" >>
                 ELSE <<>>)
                \o (IF distribution[i].date = <<>>
                    THEN << name(i) \o ".date must be a valid Date" >>
                    ELSE <<>>)
            totalPercentage ==
                SumSeq([i \in 1..Len(distribution) |->
                          IF PercentageInRange(distribution[i].percentage)
                          THEN distribution[i].percentage.value ELSE 0])
        IN [errors |-> Flatten([i \in 1..Len(distribution) |-> itemErrors(i)]),
            warnings |-> IF Abs(totalPercentage - 1000) > 100
                         THEN << distributionName \o " total percentage is "
                                   \o toFixed(totalPercentage) \o "%, expected ~100%" >>
                         ELSE <<>>]

validateHardwareSurveyEntry(entry) ==
    LET gpu_ == validateMarketShareArray(entry.gpuDistribution, "GPU distribution")
        cpu_ == validateMarketShareArray(entry.cpuDistribution, "CPU distribution")
        errors == (IF entry.date = <<>> THEN <<"Invalid date">> ELSE <<>>)
                    \o gpu_.errors \o cpu_.errors
    IN [isValid |-> Len(errors) = 0, errors |-> errors,
        warnings |-> gpu_.warnings \o cpu_.warnings]

\* cleanGPUModelName on the cleaned keys of the inputs
cleanGPUModelName(modelName) ==
    CASE modelName = "@@@" -> ""
      [] modelName = "rtx 4060" -> "RTX 4060"
      [] OTHER -> modelName

\* percentage >= 0.1 on a validated percentage
AtLeastThreshold(item) == item.percentage.value >= 1

applyDataCleaning(entry) ==
    LET gpus == entry.gpuDistribution
        cpus == entry.cpuDistribution
    IN [entry EXCEPT
          !.gpuDistribution =
              SelectSeq([i \in 1..Len(gpus) |->
                           [gpus[i] EXCEPT !.model = cleanGPUModelName(gpus[i].model)]],
                        LAMBDA g : Len(g.model) > 0 /\ AtLeastThreshold(g)),
          !.cpuDistribution =
              SelectSeq([i \in 1..Len(cpus) |-> [cpus[i] EXCEPT !.model = trim(cpus[i].model)]],
                        LAMBDA c : Len(c.model) > 0 /\ AtLeastThreshold(c)),
          !.resolutionData = SelectSeq(entry.resolutionData, AtLeastThreshold),
          !.vramDistribution = SelectSeq(entry.vramDistribution, AtLeastThreshold)]

\* the try block: what it returns, or the exception it raises with the errors
\* and warnings pushed so far
tryBlock(data) ==
    LET raised(errors, warnings) ==
            [threw |-> TRUE,
             value |-> [success |-> FALSE, data |-> <<>>, errors |-> errors,
                        warnings |-> warnings]]
        returned(success, entry, errors, warnings) ==
            [threw |-> FALSE,
             value |-> [success |-> success, data |-> entry, errors |-> errors,
                        warnings |-> warnings]]
        throwsAt == IF data.type = "object" THEN data.throwsAt ELSE "never"
        validation == validateSteamSurveyData(data)
        normalizedData == normalizeSurveyEntry(data)
        normalizedValidation == validateHardwareSurveyEntry(normalizedData)
        errors == validation.errors \o normalizedValidation.errors
        warnings == validation.warnings \o normalizedValidation.warnings
    IN IF throwsAt = "validate" THEN raised(<<>>, <<>>)
       ELSE IF ~validation.isValid
       THEN returned(FALSE, <<>>, validation.errors, validation.warnings)
       ELSE IF throwsAt = "normalize" THEN raised(validation.errors, validation.warnings)
       ELSE IF ~normalizedValidation.isValid THEN returned(FALSE, <<>>, errors, warnings)
       ELSE returned(TRUE, <<applyDataCleaning(normalizedData)>>, errors, warnings)

processSurveyDataNoCatch(data) ==
    LET attempt == tryBlock(data)
    IN IF attempt.threw THEN [state |-> "rejected"]
       ELSE [state |-> "fulfilled", value |-> attempt.value]

\* the promise the async function returns
processSurveyData(data) ==
    LET attempt == tryBlock(data)
    IN [state |-> "fulfilled",
        value |-> IF attempt.threw
                  THEN [attempt.value EXCEPT
                          !.errors = @ \o <<"Processing error: accessor failed">>]
                  ELSE attempt.value]

\* the raw inputs: non-objects, and objects over every combination of sample
\* fields, well-formed and malformed
RawInputs ==
    LET Num(n) == [type |-> "number", value |-> n]
        Undefined == [type |-> "undefined", value |-> 0]
        NotANumber == [type |-> "string", value |-> 0]
        Object(entries) == [type |-> "object", entries |-> entries]
        Entry(key, percentage, change) ==
            [key |-> key,
             value |-> [type |-> "object", percentage |-> percentage, change |-> change]]
        GraphicsSections ==
            { Object(<<Entry("NVIDIA GeForce RTX 4090", Num(600), Num(5)),
                       Entry(" AMD  Radeon RX 7900 XT ", Num(400), Undefined)>>),
              Object(<<Entry("rtx 4060", Num(999), Undefined), Entry("@@@", Num(1), Undefined),
                       Entry("GTX 1060", Num(0), Undefined)>>),
              Object(<<Entry("RTX 4090", Num(500), Undefined)>>),
              Object(<<>>),
              [type |-> "string", entries |-> <<>>],
              Object(<<[key |-> "RTX 4090", value |-> [type |-> "null"]]>>),
              Object(<<Entry("RTX 4090", NotANumber, Undefined)>>),
              Object(<<Entry("RTX 4090", Num(1001), NotANumber)>>) }
        ProcessorSections ==
            { Object(<<Entry("Intel(R) Core(TM) i7-12700K @ 3.60GHz", Num(550), Undefined),
                       Entry("AMD Ryzen 7 5800X", Num(450), Undefined)>>),
              Object(<<Entry("  ", Num(1000), Undefined)>>),
              Object(<<Entry("AMD Ryzen 7 5800X", Num(-1), Undefined)>>),
              [type |-> "undefined", entries |-> <<>>] }
        MemorySections ==
            { Object(<<Entry("16 GB", Num(1000), Undefined), Entry("8 GB", Num(0), Undefined)>>),
              Object(<<Entry("16 GB", Undefined, Undefined)>>),
              [type |-> "undefined", entries |-> <<>>] }
        ResolutionSections ==
            { Object(<<Entry("1920 x 1080", Num(1000), Undefined)>>),
              [type |-> "undefined", entries |-> <<>>] }
    IN { [type |-> "undefined"], [type |-> "string"] }
       \cup [type : {"object"},
             surveyDate : { [type |-> "string", value |-> "2023-06-01"],
                            [type |-> "string", value |-> "2024-01-15"],
                            [type |-> "string", value |-> "invalid-date"],
                            [type |-> "string", value |-> ""],
                            [type |-> "number", value |-> "20230601"],
                            [type |-> "undefined", value |-> ""] },
             totalParticipants : { Num(1000), Num(-1), Undefined },
             graphics : GraphicsSections, processors : ProcessorSections,
             memory : MemorySections, resolution : ResolutionSections,
             throwsAt : {"never", "validate", "normalize"}]

InitIngest ==
    /\ pc = "input"
    /\ rawData \in RawInputs
    /\ result = [state |-> "pending"]
    /\ rawDataArray = <<>> /\ settled = <<>> /\ order = <<>> /\ batch = [state |-> "pending"]
    /\ BottleneckIdle /\ ClassifyIdle /\ TrendIdle /\ ClusterIdle /\ LookupIdle
    /\ TransformIdle /\ TablesIdle

ProcessSurveyData ==
    /\ pc = "input"
    /\ result' = processSurveyData(rawData)
    /\ pc' = IF result'.state = "rejected" THEN "threw" ELSE "done"
    /\ UNCHANGED <<rawData, rawDataArray, settled, order, batch,
                   bnVars, dtVars, trVars, clVars, dbVars, agVars, tbVars>>

NextIngest == ProcessSurveyData

SpecIngest == InitIngest /\ [][NextIngest]_vars

(***************************************************************************)
(* DataIngestion.processMultipleSurveyEntries.  map starts one task per    *)
(* entry, the tasks settle one at a time in any order, and the function    *)
(* resumes after Promise.all once every task has settled.  An array may    *)
(* have holes (new Array(n), [a, , b]): map skips a hole and leaves it a   *)
(* hole, and the iteration of Promise.all reads it as undefined.           *)
(***************************************************************************)
MaxBatch == 3

\* Array.prototype.join(', ')
RECURSIVE join(_)
join(strings) ==
    IF strings = <<>> THEN ""
    ELSE IF Len(strings) = 1 THEN strings[1]
    ELSE strings[1] \o ", " \o join(Tail(strings))

validateDataConsistency(entries) ==
    LET dates == { entries[i].date : i \in 1..Len(entries) }
        popular(entry) ==
            { entry.gpuDistribution[j].model :
                j \in { n \in 1..Len(entry.gpuDistribution) :
                          entry.gpuDistribution[n].percentage.value > 10 } }
        popularGPUs == UNION { popular(entries[i]) : i \in 1..Len(entries) }
    IN [errors |-> IF Len(entries) # Cardinality(dates)
                   THEN <<"Duplicate survey dates detected">> ELSE <<>>,
        warnings |-> IF popularGPUs = {}
                     THEN <<"No popular GPUs found across survey entries">> ELSE <<>>]

promiseAllAsSettled(tasks, settledOrder) ==
    [j \in 1..Len(tasks) |->
        IF j <= Len(settledOrder) THEN tasks[settledOrder[j]].value ELSE [type |-> "undefined"]]

\* the array Promise.all resolves with: the tasks' values by index, whatever
\* the order in which they settled
promiseAll(tasks, settledOrder) ==
    [i \in 1..Len(tasks) |->
        IF tasks[i].state = "hole" THEN [type |-> "undefined"] ELSE tasks[i].value]

\* the code after the await, once the callback of forEach could destructure
\* every element of results
summarize(results, processed) ==
    LET ok(i) == results[i].result.success /\ results[i].result.data # <<>>
        indices == [i \in 1..Len(results) |-> i]
        good == SelectSeq(indices, ok)
        bad == SelectSeq(indices, LAMBDA i : ~ok(i))
        processedData == [j \in 1..Len(good) |-> results[good[j]].result.data[1]]
        consistency ==
            IF Len(processedData) > 1 THEN validateDataConsistency(processedData)
            ELSE [errors |-> <<>>, warnings |-> <<>>]
    IN [success |-> Len(good) > 0,
        data |-> processedData,
        errors |-> [j \in 1..Len(bad) |->
                      "Entry " \o ToString(results[bad[j]].index) \o ": "
                        \o join(results[bad[j]].result.errors)]
                   \o consistency.errors,
        warnings |-> Flatten([i \in 1..Len(results) |-> results[i].result.warnings])
                     \o consistency.warnings,
        stats |-> [processed |-> processed, successful |-> Len(good), failed |-> Len(bad)]]

\* the elements of the input arrays: a hole, and a few of the raw inputs (a
\* non-object, a well-formed survey of either date, one with an invalid date, and
\* one whose accessor throws in the normaliser)
BatchInputs ==
    { [type |-> "hole"] } \cup
    { r \in RawInputs :
        /\ r.type \in {"undefined", "object"}
        /\ r.type = "object" =>
             /\ r.surveyDate.type = "string" /\ r.surveyDate.value # ""
             /\ r.totalParticipants = [type |-> "number", value |-> 1000]
             /\ \A section \in {r.graphics, r.processors, r.memory, r.resolution} :
                    /\ section.type = "object" /\ section.entries # <<>>
                    /\ validateDataSection(section, "").errors = <<>>
                    /\ validateDataSection(section, "").warnings = <<>>
             /\ Len(r.graphics.entries) = 2 /\ Len(r.processors.entries) = 2
             /\ r.throwsAt # "validate"
             /\ r.throwsAt = "normalize" => r.surveyDate.value = "2023-06-01" }

InitBatch ==
    /\ pc = "input"
    /\ rawDataArray \in SeqsUpTo(BatchInputs, MaxBatch)
    /\ settled = <<>> /\ order = <<>> /\ batch = [state |-> "pending"]
    /\ rawData = [type |-> "undefined"] /\ result = [state |-> "pending"]
    /\ BottleneckIdle /\ ClassifyIdle /\ TrendIdle /\ ClusterIdle /\ LookupIdle
    /\ TransformIdle /\ TablesIdle

\* rawDataArray.map(...): one pending task per entry
MapEntries ==
    /\ pc = "input"
    /\ settled' = [i \in 1..Len(rawDataArray) |->
                      [state |-> IF rawDataArray[i].type = "hole" THEN "hole" ELSE "pending"]]
    /\ pc' = "await"
    /\ UNCHANGED <<rawData, result, rawDataArray, order, batch,
                   bnVars, dtVars, trVars, clVars, dbVars, agVars, tbVars>>

\* one task settles: processSurveyData(rawData).then(result => ({ result, index: i }))
SettleEntry ==
    /\ pc = "await"
    /\ \E i \in 1..Len(settled) :
        /\ settled[i].state = "pending"
        /\ LET promise == processSurveyData(rawDataArray[i])
           IN settled' = [settled EXCEPT ![i] =
                            [state |-> promise.state,
                             value |-> [result |-> promise.value, index |-> i - 1]]]
        /\ order' = Append(order, i)
    /\ UNCHANGED <<pc, rawData, result, rawDataArray, batch,
                   bnVars, dtVars, trVars, clVars, dbVars, agVars, tbVars>>

\* Promise.all is fulfilled once every task is; the function resumes, and
\* returns unless destructuring an undefined element of results throws
ResumeAfterAll ==
    /\ pc = "await"
    /\ \A i \in 1..Len(settled) : settled[i].state \in {"fulfilled", "hole"}
    /\ LET results == promiseAll(settled, order)
       IN IF \E i \in 1..Len(results) : results[i] = [type |-> "undefined"]
          THEN batch' = [state |-> "rejected"] /\ pc' = "threw"
          ELSE /\ batch' = [state |-> "fulfilled",
                            value |-> summarize(results, Len(rawDataArray))]
               /\ pc' = "done"
    /\ UNCHANGED <<rawData, result, rawDataArray, settled, order,
                   bnVars, dtVars, trVars, clVars, dbVars, agVars, tbVars>>

NextBatch == MapEntries \/ SettleEntry \/ ResumeAfterAll

SpecBatch == InitBatch /\ [][NextBatch]_vars

(***************************************************************************)
(* Array transformations of DataAggregator and DataNormalizer.  A call is  *)
(* given the caller's array by reference: each operator yields the array   *)
(* as the call leaves it together with the array it returns.               *)
(***************************************************************************)
MaxEntriesLen == 3

\* Array.prototype.sort((a, b) => b.percentage - a.percentage): stable, descending
RECURSIVE sortDescending(_)
sortDescending(s) ==
    IF Len(s) <= 1 THEN s
    ELSE LET rest == sortDescending(SubSeq(s, 1, Len(s) - 1))
             x == s[Len(s)]
             pos == Cardinality({i \in 1..Len(rest) : rest[i].percentage >= x.percentage})
         IN  SubSeq(rest, 1, pos) \o <<x>> \o SubSeq(rest, pos + 1, Len(rest))

\* entries.sort(...).slice(0, count): sort works in place and returns its receiver
getTopEntries(array, count) ==
    LET sorted == sortDescending(array)
    IN [array |-> sorted, result |-> SubSeq(sorted, 1, Min(count, Len(sorted)))]

\* [...entries].sort(...)
sortByPercentage(array) == [array |-> array, result |-> sortDescending(array)]

\* entries.filter(entry => entry.percentage >= threshold)
filterLowPercentageEntries(array, threshold) ==
    [array |-> array,
     result |-> SelectSeq(array, LAMBDA entry : entry.percentage >= threshold)]

InitTransform ==
    /\ pc = "input"
    /\ callerArray \in SeqsUpTo([model : {"Medium", "High"}, percentage : {0, 50, 150}],
                                MaxEntriesLen)
    /\ transformed = <<>>
    /\ BottleneckIdle /\ ClassifyIdle /\ TrendIdle /\ ClusterIdle /\ LookupIdle
    /\ IngestIdle /\ TablesIdle

GetTopEntries ==
    /\ pc = "input"
    /\ \E count \in {0, 1, 2, 10} :
          LET call == getTopEntries(callerArray, count)
          IN callerArray' = call.array /\ transformed' = call.result
    /\ pc' = "done"
    /\ UNCHANGED <<bnVars, dtVars, trVars, clVars, dbVars, inVars, tbVars>>

SortByPercentage ==
    /\ pc = "input"
    /\ LET call == sortByPercentage(callerArray)
       IN callerArray' = call.array /\ transformed' = call.result
    /\ pc' = "done"
    /\ UNCHANGED <<bnVars, dtVars, trVars, clVars, dbVars, inVars, tbVars>>

FilterLowPercentageEntries ==
    /\ pc = "input"
    /\ \E threshold \in {1, 100} :
          LET call == filterLowPercentageEntries(callerArray, threshold)
          IN callerArray' = call.array /\ transformed' = call.result
    /\ pc' = "done"
    /\ UNCHANGED <<bnVars, dtVars, trVars, clVars, dbVars, inVars, tbVars>>

NextTransform == GetTopEntries \/ SortByPercentage \/ FilterLowPercentageEntries

SpecTransform == InitTransform /\ [][NextTransform]_vars

(***************************************************************************)
(* The static reference tables.  Each module calls initialize() once when  *)
(* it is loaded; initialize() is public and the tests call it again.       *)
(* GPUDatabase keeps a Map keyed by model, BenchmarkDatabase an array.     *)
(***************************************************************************)
MaxInitialize == 3     \* further calls of BenchmarkDatabase.initialize()

benchmarkRecords ==
    <<
       [gpuModel |-> "RTX 4090", game |-> "Cyberpunk 2077", resolution |-> "4K", settings |-> "Ultra", averageFPS |-> 68],
       [gpuModel |-> "RTX 4090", game |-> "Call of Duty: Modern Warfare II", resolution |-> "4K", settings |-> "Ultra", averageFPS |-> 142],
       [gpuModel |-> "RTX 4090", game |-> "Red Dead Redemption 2", resolution |-> "4K", settings |-> "Ultra", averageFPS |-> 78],
       [gpuModel |-> "RTX 4080", game |-> "Cyberpunk 2077", resolution |-> "4K", settings |-> "High", averageFPS |-> 58],
       [gpuModel |-> "RTX 4080", game |-> "Call of Duty: Modern Warfare II", resolution |-> "4K", settings |-> "High", averageFPS |-> 128],
       [gpuModel |-> "RTX 4070 Ti", game |-> "Cyberpunk 2077", resolution |-> "1440p", settings |-> "Ultra", averageFPS |-> 82],
       [gpuModel |-> "RTX 4070 Ti", game |-> "Call of Duty: Modern Warfare II", resolution |-> "1440p", settings |-> "Ultra", averageFPS |-> 165],
       [gpuModel |-> "RTX 4070", game |-> "Cyberpunk 2077", resolution |-> "1440p", settings |-> "High", averageFPS |-> 72],
       [gpuModel |-> "RTX 4070", game |-> "Call of Duty: Modern Warfare II", resolution |-> "1440p", settings |-> "High", averageFPS |-> 148],
       [gpuModel |-> "RTX 4060 Ti", game |-> "Cyberpunk 2077", resolution |-> "1080p", settings |-> "Ultra", averageFPS |-> 95],
       [gpuModel |-> "RTX 4060 Ti", game |-> "Call of Duty: Modern Warfare II", resolution |-> "1080p", settings |-> "Ultra", averageFPS |-> 185],
       [gpuModel |-> "RX 7900 XTX", game |-> "Cyberpunk 2077", resolution |-> "4K", settings |-> "Ultra", averageFPS |-> 62],
       [gpuModel |-> "RX 7900 XTX", game |-> "Call of Duty: Modern Warfare II", resolution |-> "4K", settings |-> "Ultra", averageFPS |-> 135],
       [gpuModel |-> "RX 7900 XT", game |-> "Cyberpunk 2077", resolution |-> "4K", settings |-> "High", averageFPS |-> 55],
       [gpuModel |-> "RX 7900 XT", game |-> "Call of Duty: Modern Warfare II", resolution |-> "4K", settings |-> "High", averageFPS |-> 122],
       [gpuModel |-> "RTX 3080", game |-> "Cyberpunk 2077", resolution |-> "1440p", settings |-> "Ultra", averageFPS |-> 68],
       [gpuModel |-> "RTX 3080", game |-> "Call of Duty: Modern Warfare II", resolution |-> "1440p", settings |-> "Ultra", averageFPS |-> 145],
       [gpuModel |-> "RTX 3070", game |-> "Cyberpunk 2077", resolution |-> "1440p", settings |-> "High", averageFPS |-> 58],
       [gpuModel |-> "RTX 3070", game |-> "Call of Duty: Modern Warfare II", resolution |-> "1440p", settings |-> "High", averageFPS |-> 128],
       [gpuModel |-> "RTX 3060 Ti", game |-> "Cyberpunk 2077", resolution |-> "1080p", settings |-> "Ultra", averageFPS |-> 82],
       [gpuModel |-> "RTX 3060 Ti", game |-> "Call of Duty: Modern Warfare II", resolution |-> "1080p", settings |-> "Ultra", averageFPS |-> 165] >>

\* Map.prototype.set: a present key keeps its place and takes the new value
addGPU(table, record) ==
    IF \E i \in 1..Len(table) : table[i].model = record.model
    THEN [i \in 1..Len(table) |-> IF table[i].model = record.model THEN record ELSE table[i]]
    ELSE Append(table, record)

RECURSIVE initializeGPUs(_, _)
initializeGPUs(table, n) ==
    IF n = 0 THEN table ELSE addGPU(initializeGPUs(table, n - 1), gpuRecords[n])

\* addBenchmark pushes each record
initializeBenchmarks(list) == list \o benchmarkRecords

getBenchmarksForGPU(list, gpuModel) == SelectSeq(list, LAMBDA b : b.gpuModel = gpuModel)

\* the state after both modules are loaded
InitTables ==
    /\ pc = "loaded"
    /\ specTable = initializeGPUs(<<>>, Len(gpuRecords))
    /\ benchmarks = initializeBenchmarks(<<>>)
    /\ answer = <<>>
    /\ BottleneckIdle /\ ClassifyIdle /\ TrendIdle /\ ClusterIdle /\ LookupIdle
    /\ IngestIdle /\ TransformIdle

InitializeGPUDatabase ==
    /\ specTable' = initializeGPUs(specTable, Len(gpuRecords))
    /\ pc' = "initialized GPUDatabase"
    /\ UNCHANGED <<benchmarks, answer, bnVars, dtVars, trVars, clVars, dbVars, inVars, agVars>>

InitializeBenchmarkDatabase ==
    /\ Len(benchmarks) < (MaxInitialize + 1) * Len(benchmarkRecords)
    /\ benchmarks' = initializeBenchmarks(benchmarks)
    /\ pc' = "initialized BenchmarkDatabase"
    /\ UNCHANGED <<specTable, answer, bnVars, dtVars, trVars, clVars, dbVars, inVars, agVars>>

\* getAllGPUs, getGPU, getAllBenchmarks or getBenchmarksForGPU
QueryTables ==
    /\ \/ answer' = specTable
       \/ \E i \in 1..Len(gpuRecords) :
             answer' = SelectSeq(specTable, LAMBDA g : g.model = gpuRecords[i].model)
       \/ answer' = benchmarks
       \/ \E i \in 1..Len(gpuRecords) :
             answer' = getBenchmarksForGPU(benchmarks, gpuRecords[i].model)
    /\ pc' = "queried"
    /\ UNCHANGED <<specTable, benchmarks, bnVars, dtVars, trVars, clVars, dbVars, inVars, agVars>>

NextTables == InitializeGPUDatabase \/ InitializeBenchmarkDatabase \/ QueryTables

SpecTables == InitTables /\ [][NextTables]_vars

(***************************************************************************)
(* Claims on the bottleneck scorer.                                        *)
(***************************************************************************)

\* C3: bottleneckType is None when the smallest sub-score exceeds 80; otherwise
\* it is the component whose sub-score is strictly smaller than both others
\* (whatever the margin), and None when the smallest value is shared.
C3_BottleneckIsUniqueLowest ==
    pc = "done" =>
        LET g == subScores[1]
            c == subScores[2]
            m == subScores[3]
            lowest == Min(g, Min(c, m))
        IN  /\ lowest > 8000 => bottleneckType = "None"
            /\ lowest <= 8000 =>
                  /\ (g < c /\ g < m) => bottleneckType = "GPU"
                  /\ (c < g /\ c < m) => bottleneckType = "CPU"
                  /\ (m < g /\ m < c) => bottleneckType = "Memory"
                  /\ Cardinality({i \in 1..3 : subScores[i] = lowest}) >= 2
                        => bottleneckType = "None"

\* The GPU is lowest by less than the 15-point margin and is still named.
C3_Witness ==
    /\ pc = "done"
    /\ subScores[1] < subScores[2] /\ subScores[1] < subScores[3]
    /\ subScores[1] >= subScores[2] - 1500
    /\ bottleneckType = "GPU"

\* C4: expectedFPS is an integer strictly between 0 and 500.
C4_ExpectedFPSInRange ==
    pc = "done" =>
        /\ analysis.expectedFPS \in Nat
        /\ analysis.expectedFPS > 0
        /\ analysis.expectedFPS < 500

\* The weakest hardware on the slowest title: the estimate rounds 0.9 up to 1.
C4_Witness ==
    /\ pc = "done"
    /\ gpu.performanceScore = 0 /\ cpu.performanceScore = 0
    /\ analysis.performanceScore = 2
    /\ analysis.expectedFPS = 1

\* C5: performanceScore is the integer nearest to
\* 0.6*gpuScore + 0.3*cpuScore + 0.1*memoryScore, and lies in [0, 100].
C5_OverallScoreWeighted ==
    pc = "done" =>
        LET weighted1000 == 6 * calculateGPUScore(gpu, targetGame)
                            + 3 * calculateCPUScore(cpu)
                            + calculateMemoryScore(gpu.vram, targetGame)
        IN  /\ analysis.performanceScore \in 0..100
            /\ 2 * Abs(1000 * analysis.performanceScore - weighted1000) <= 1000

\* Every sub-score at its cap: a GPU whose uncapped score is 115.
C5_Witness ==
    /\ pc = "done"
    /\ gpu.performanceScore = 100 /\ gpu.vram >= 2 * targetGame.recommendedVRAM
    /\ gpu.architecture = "Ada Lovelace"
    /\ analysis.performanceScore = 100

MentionsGPU(recommendation) ==
    LET r == toLowerCase(recommendation) IN
    includes(r, "gpu") \/ includes(r, "graphics") \/ includes(r, "vram")

\* C9: with gpu.performanceScore <= 30, gpu.vram <= half the game's recommended
\* VRAM and a CPU sub-score above 80, bottleneckType is GPU or Memory and some
\* recommendation mentions GPU, graphics or VRAM.
C9_StarvedGPUIsNamed ==
    (/\ pc = "done"
     /\ gpu.performanceScore <= 30
     /\ 2 * gpu.vram <= targetGame.recommendedVRAM
     /\ calculateCPUScore(cpu) > 8000)
    => /\ analysis.bottleneckType \in {"GPU", "Memory"}
       /\ \E i \in 1..Len(analysis.recommendations) : MentionsGPU(analysis.recommendations[i])

(***************************************************************************)
(* Claims on the trend detector.                                           *)
(***************************************************************************)
InputModels == {historical[i].gpuModel : i \in 1..Len(historical)}

\* The percentages of the one model of a single-model input, in date order:
\* the i-th is that of the observation with i observations at or before it,
\* observations of one date counting in the order given.
SeriesOf(h) ==
    [i \in 1..Len(h) |->
        LET at == CHOOSE j \in 1..Len(h) :
                      Cardinality({l \in 1..Len(h) :
                          \/ h[l].date < h[j].date
                          \/ h[l].date = h[j].date /\ l <= j}) = i
        IN  h[at].percentage]

SingleModel == Cardinality(InputModels) = 1
TheModel == CHOOSE m \in InputModels : TRUE

Listed(list, model) == \E i \in 1..Len(list) : list[i] = model

\* C2: every model of a non-empty input appears exactly once in the three lists
\* growing, declining, stable taken together, and the lists hold no other name.
C2_EachModelInOneList ==
    (pc = "detected" /\ Len(historical) > 0) =>
        LET all == trends.growing \o trends.declining \o trends.stable IN
        /\ \A m \in InputModels : Cardinality({i \in 1..Len(all) : all[i] = m}) = 1
        /\ \A i \in 1..Len(all) : all[i] \in InputModels

\* Two models, one listed growing and the other declining.
C2_Witness ==
    /\ pc = "detected"
    /\ Cardinality(InputModels) = 2
    /\ Len(trends.growing) = 1 /\ Len(trends.declining) = 1

\* C6: every predicted percentage lies in [0, 100].
C6_PredictionsInRange ==
    pc = "predicted" =>
        \A i \in 1..Len(predictions) :
            /\ predictions[i].percentage[1] >= 0
            /\ predictions[i].percentage[1] <= 1000 * predictions[i].percentage[2]

\* A rising series whose extrapolation passes 100 and is returned as 100.
C6_Witness ==
    /\ pc = "predicted" /\ SingleModel /\ Len(historical) >= 7
    /\ LET sorted == sortByDate(historical)
           slope == calculateTrendSlope(calculateMovingAverages(sorted, 6))
       IN  sorted[Len(sorted)].percentage * slope[2] + slope[1] > 1000 * slope[2]
    /\ predictions[1].percentage = <<1000, 1>>

StrictlyIncreasing(p) == \A i \in 1..(Len(p) - 1) : p[i] < p[i + 1]
StrictlyDecreasing(p) == \A i \in 1..(Len(p) - 1) : p[i] > p[i + 1]
\* Each step is at least `step` tenths of a point, upwards (downwards).
RisesBy(p, step) == \A i \in 1..(Len(p) - 1) : p[i + 1] - p[i] >= step
FallsBy(p, step) == \A i \in 1..(Len(p) - 1) : p[i] - p[i + 1] >= step

\* C7 as stated: under the default window a model with strictly increasing
\* percentages is listed growing, one with strictly decreasing percentages declining.
C7_MonotoneClassifiedOriginal ==
    (/\ pc = "detected" /\ window = DefaultWindow
     /\ SingleModel /\ Len(historical) >= 2)
    => /\ StrictlyIncreasing(SeriesOf(historical)) => Listed(trends.growing, TheModel)
       /\ StrictlyDecreasing(SeriesOf(historical)) => Listed(trends.declining, TheModel)

\* C7 amended: for a window of at least 1, a model with at least window + 1
\* observations whose percentages
\* rise (fall) by at least 0.2 points at every step is listed growing (declining);
\* a model with at most `window` observations is listed stable.
C7_MonotoneClassified ==
    (pc = "detected" /\ SingleModel) =>
        /\ (window >= 1 /\ Len(historical) >= window + 1) =>
              /\ RisesBy(SeriesOf(historical), 2) => Listed(trends.growing, TheModel)
              /\ FallsBy(SeriesOf(historical), 2) => Listed(trends.declining, TheModel)
        /\ Len(historical) <= window => Listed(trends.stable, TheModel)

\* Seven rising months under the default window, given latest first.
C7_Witness ==
    /\ pc = "detected" /\ window = DefaultWindow
    /\ SingleModel /\ Len(historical) = 7
    /\ historical[1].date > historical[2].date
    /\ RisesBy(SeriesOf(historical), 2)
    /\ Listed(trends.growing, TheModel)

\* The models whose trend has the direction given and a confidence above 0.3.
Qualifying(direction) ==
    LET trendsByModel == analyzeModelTrends(historical, window) IN
    {m \in InputModels :
        trendsByModel[m].direction = direction /\ ConfidenceAbove03(trendsByModel[m])}

IsFastest(model, rate, direction) ==
    LET trendsByModel == analyzeModelTrends(historical, window)
        Q == Qualifying(direction)
    IN  IF Q = {} THEN model = "None" /\ rate = <<0, 1>>
        ELSE /\ model \in Q
             /\ rate = trendsByModel[model].rate
             /\ \A m \in Q : ~FracLess(rate, trendsByModel[m].rate)

\* C8: fastestGrowth (fastestDecline) names a model of greatest rate among the
\* growing (declining) models of confidence above 0.3, and is {None, 0} when
\* there is none, whatever the growing (declining) list holds.
C8_FastestNeedsConfidence ==
    (pc = "detected" /\ Len(historical) > 0) =>
        /\ IsFastest(trends.fastestGrowth.model, trends.fastestGrowth.growthRate, "growing")
        /\ IsFastest(trends.fastestDecline.model, trends.fastestDecline.declineRate, "declining")

\* Two growing models: the steeper one has a confidence of 0.3 or less, and the
\* other one is reported.
C8_Witness ==
    /\ pc = "detected"
    /\ Len(trends.growing) = 2
    /\ LET trendsByModel == analyzeModelTrends(historical, window) IN
       \E m \in InputModels :
          /\ ~ConfidenceAbove03(trendsByModel[m])
          /\ FracLess(trends.fastestGrowth.growthRate, trendsByModel[m].rate)
    /\ trends.fastestGrowth.model # "None"

(***************************************************************************)
(* Claims on the profile clusterer.                                        *)
(***************************************************************************)
RECURSIVE SumUserCount(_)
SumUserCount(cs) ==
    IF Len(cs) = 0 THEN 0 ELSE cs[1].userCount + SumUserCount(SubSeq(cs, 2, Len(cs)))

\* The number of clusters that hold the point of the userId given.
TimesAssigned(userId) ==
    Cardinality({<<i, j>> \in (1..Len(clusters)) \X (1..Len(points)) :
                    j <= Len(clusters[i]) /\ clusters[i][j].userId = userId})

\* C1: for k >= 1, whatever centroids the initialisation picked, the userCount
\* values returned sum to the number of extracted feature points, and every
\* point lies in exactly one cluster.
C1_MembershipConserved ==
    (k >= 1) =>
        /\ pc = "done" =>
              SumUserCount(userClusters) = Len(extractClusterPoints(surveyData))
        /\ pc = "format" =>
              \A j \in 1..Len(points) : TimesAssigned(points[j].userId) = 1

\* Three clusters asked for, four points, and one cluster came out empty.
C1_Witness ==
    /\ pc = "done" /\ k = 3
    /\ Len(points) = 4
    /\ Len(userClusters) = 2
    /\ SumUserCount(userClusters) = 4

\* C10: clusterUserProfiles never throws, for any k >= 0, and returns [] for
\* an empty input.
C10_NeverThrows ==
    /\ pc # "threw"
    /\ (pc = "done" /\ Len(surveyData) = 0) => userClusters = <<>>

\* The distinct feature vectors among the extracted points.
FeatureVectors ==
    LET pts == extractClusterPoints(surveyData) IN
    {<<pts[i].gpuPerformance, pts[i].cpuPerformance, pts[i].memoryTier>> : i \in 1..Len(pts)}

\* C11: for k >= 1 every cluster returned has userCount >= 1, and the number of
\* clusters returned is at most min(k, number of distinct feature vectors).
C11_ClustersNonEmptyAndFew ==
    (pc = "done" /\ k >= 1) =>
        /\ \A i \in 1..Len(userClusters) : userClusters[i].userCount >= 1
        /\ Len(userClusters) <= Min(k, Cardinality(FeatureVectors))

\* Four points of two distinct vectors, three clusters asked for: two come back,
\* one cluster having been left empty and filtered out.
C11_Witness ==
    /\ pc = "done" /\ k = 3
    /\ Len(points) = 4 /\ Cardinality(FeatureVectors) = 2
    /\ Len(clusters) = 3
    /\ Len(userClusters) = 2

\* Some centroid lies more than 1e-4 away from its previous position.
Moved(old, new) ==
    \E i \in 1..Len(old) :
        LET gpuDiff == old[i].gpuPerformance * new[i].den - new[i].gpuPerformance * old[i].den
            cpuDiff == old[i].cpuPerformance * new[i].den - new[i].cpuPerformance * old[i].den
            memoryDiff == old[i].memoryTier * new[i].den - new[i].memoryTier * old[i].den
            scale == old[i].den * new[i].den
        IN  gpuDiff * gpuDiff + cpuDiff * cpuDiff + memoryDiff * memoryDiff
               > (scale * scale) \div 100000000

\* C12: the k-means loop terminates, after at most 100 passes: a pass begins
\* only below the cap and every further pass raises the pass counter by one;
\* the loop goes on to a further pass only when some centroid moved by more than
\* 1e-4, and before the cap it stops only at a pass after which none moved.
C12_LoopTerminates ==
    /\ [](iteration <= maxIterations /\ (pc = "loop" => iteration < maxIterations))
    /\ [][(pc = "loop" /\ pc' = "loop")
            => (iteration' = iteration + 1 /\ Moved(centroids, centroids'))]_vars
    /\ [][(pc = "loop" /\ pc' = "format" /\ iteration' < maxIterations)
            => ~Moved(centroids', calculateNewCentroids(clusters'))]_vars
    /\ [][pc = "loop" => pc' \in {"loop", "format", "threw"}]_vars

\* The loop stopped at its third pass: the centroids moved twice, then stayed.
C12_Witness ==
    /\ pc = "format" /\ k >= 2
    /\ iteration = 2
    /\ ~Moved(centroids, calculateNewCentroids(clusters))

\* The lists another invocation on the same input and k may return: one for
\* each outcome of the random initialisation.
OtherRuns ==
    {formatClusters(kMeansLoop(points, initializeCentroids(points, k, randomIndex), 0),
                    surveyData) :
        randomIndex \in [1..k -> 1..Len(points)]}

WithinOfMean(p, band) ==
    \A i \in 1..Len(p) : Abs(Len(p) * p[i] - SumSeq(p)) <= band * Len(p)

\* C14 as stated: a model whose observations all lie within 0.3 points of the
\* mean of its series is listed stable, whatever the window.
C14_FlatIsStableOriginal ==
    (/\ pc = "detected" /\ SingleModel
     /\ WithinOfMean(SeriesOf(historical), 3))
    => Listed(trends.stable, TheModel)

\* C14 amended: a model whose observations all lie within 0.3 points of the mean
\* of its series is listed stable when it has at most `window` observations or
\* at least window + 9 of them (ten moving averages or more).
C14_FlatIsStable ==
    (/\ pc = "detected" /\ SingleModel
     /\ WithinOfMean(SeriesOf(historical), 3)
     /\ (Len(historical) <= window \/ Len(historical) >= window + 9))
    => Listed(trends.stable, TheModel)

\* Five months at 50.0 then five at 50.6, window 1: ten moving averages whose
\* slope stays below the threshold.
C14_Witness ==
    /\ pc = "detected" /\ SingleModel /\ window = 1
    /\ Len(historical) = 10
    /\ SeriesOf(historical) = <<500, 500, 500, 500, 500, 506, 506, 506, 506, 506>>
    /\ Listed(trends.stable, TheModel)

\* The least-squares slope of the last min(6, n) percentages of a model against
\* their position in date order, and the model's most recent percentage.
LastSixSlope(model) ==
    LET sorted == sortByDate(groupByModel(historical)[model])
        n == Len(sorted)
        lastSix == SubSeq(sorted, n - Min(6, n) + 1, n)
    IN  calculateTrendSlope(calculateMovingAverages(lastSix, 1))

LatestPercentage(model) ==
    LET sorted == sortByDate(groupByModel(historical)[model]) IN sorted[Len(sorted)].percentage

PredictionsOf(model) == SelectSeq(predictions, LAMBDA p : p.gpuModel = model)

\* C15: for each model with at least two observations, the percentage predicted
\* for month m is clamp(p_last + s*m, 0, 100), s being the least-squares slope of
\* the model's last min(6, n) observed percentages.
C15_PredictionFollowsLastSix ==
    pc = "predicted" =>
        \A model \in InputModels :
            Len(groupByModel(historical)[model]) >= 2 =>
                LET s == LastSixSlope(model)
                    of == PredictionsOf(model)
                IN  /\ Len(of) = monthsAhead
                    /\ \A m \in 1..monthsAhead :
                          LET expected == clampPercentage(
                                  <<LatestPercentage(model) * s[2] + s[1] * m, s[2]>>)
                          IN  of[m].percentage[1] * expected[2]
                                 = expected[1] * of[m].percentage[2]

\* C16: detectMarketTrends and predictMarketEvolution never throw, whatever the
\* window or the number of months; for an empty list the first returns the
\* sentinel summary and the second returns [].
C16_TrendsNeverThrow ==
    /\ pc # "threw"
    /\ (pc = "detected" /\ Len(historical) = 0) => trends = createEmptyTrendAnalysis
    /\ (pc = "predicted" /\ Len(historical) = 0) => predictions = <<>>

\* The three sub-scores of the configuration analysed, in hundredths of a point.
SubScoresOf ==
    <<calculateGPUScore(gpu, targetGame), calculateCPUScore(cpu),
      calculateMemoryScore(gpu.vram, targetGame)>>

AllWeak == \A i \in 1..3 : SubScoresOf[i] <= 8000

UniqueLowest ==
    \E i \in 1..3 : \A j \in (1..3) \ {i} : SubScoresOf[i] < SubScoresOf[j]

\* C17 as stated: with all three sub-scores at or below 80, bottleneckType is
\* GPU, CPU or Memory, never None.
C17_WeakIsNamedOriginal ==
    (pc = "done" /\ AllWeak) => analysis.bottleneckType \in {"GPU", "CPU", "Memory"}

\* C17 amended: with all three sub-scores at or below 80, bottleneckType is GPU,
\* CPU or Memory exactly when one sub-score is strictly below the other two, and
\* None when the lowest value is shared.
C17_WeakIsNamed ==
    (pc = "done" /\ AllWeak) =>
        /\ UniqueLowest => analysis.bottleneckType \in {"GPU", "CPU", "Memory"}
        /\ ~UniqueLowest => analysis.bottleneckType = "None"

\* GPU score 10 with 2 GB, CPU score 15, a game recommending 16 GB.
C17_Witness ==
    /\ pc = "done" /\ AllWeak
    /\ gpu.performanceScore = 10 /\ gpu.vram = 8
    /\ cpu.performanceScore = 15 /\ targetGame.recommendedVRAM = 64
    /\ analysis.bottleneckType = "GPU"

\* The GPU upgrade options of the analysis (one at most).
GPUOptions == SelectSeq(analysis.upgradeOptions, LAMBDA o : o.component = "GPU")

C19_CaseVariantFindsModel ==
    pc = "done" =>
        \A i \in 1..Len(gpuSpecs) :
            partialName \in CaseVariants(gpuSpecs[i]) => found = gpuSpecs[i]


(***************************************************************************)
(* Claims on the ingestion pipeline.                                       *)
(***************************************************************************)
\* what the two validations report for an input: nothing when the step is not
\* reached or raises
RawReport(data) ==
    IF data.type = "object" /\ data.throwsAt = "validate" THEN <<>>
    ELSE <<validateSteamSurveyData(data)>>

NormalizedReport(data) ==
    IF RawReport(data) = <<>> \/ ~RawReport(data)[1].isValid \/ data.throwsAt = "normalize"
    THEN <<>>
    ELSE <<validateHardwareSurveyEntry(normalizeSurveyEntry(data))>>

BothReportNoErrors(data) ==
    /\ RawReport(data) # <<>> /\ RawReport(data)[1].errors = <<>>
    /\ NormalizedReport(data) # <<>> /\ NormalizedReport(data)[1].errors = <<>>

\* C20: processSurveyData never rejects: its promise is fulfilled with
\* success = true, data defined and errors empty exactly when raw-data validation
\* and validation of the normalized entry both report no errors, and otherwise
\* (an exception during normalisation included) with success = false, data
\* undefined and a non-empty errors list.
C20_AlwaysResolves ==
    pc # "threw" /\
    (pc = "done" =>
        /\ result.state = "fulfilled"
        /\ IF BothReportNoErrors(rawData)
           THEN /\ result.value.success
                /\ result.value.data # <<>>
                /\ result.value.errors = <<>>
           ELSE /\ ~result.value.success
                /\ result.value.data = <<>>
                /\ result.value.errors # <<>>)

\* an exception raised during normalisation, after a clean raw validation
C20_Witness ==
    /\ pc = "done"
    /\ rawData.type = "object" /\ rawData.throwsAt = "normalize"
    /\ RawReport(rawData)[1].errors = <<>>
    /\ ~result.value.success
    /\ result.value.errors = <<"Processing error: accessor failed">>


\* the successful entries of the input, by input index
SuccessfulIndices ==
    SelectSeq([i \in 1..Len(rawDataArray) |-> i],
              LAMBDA i : settled[i].state = "fulfilled" /\ settled[i].value.result.success)

\* C21: for any input array, processMultipleSurveyEntries resolves, and only
\* after every per-entry task has settled, with stats.processed = input length,
\* successful + failed = processed, data.length = successful, data in input-index
\* order whatever the order in which the tasks settled, and success exactly when
\* successful > 0.
C21_BatchSummary ==
    /\ pc # "threw" /\ batch.state # "rejected"
    /\ batch.state # "pending" => \A i \in 1..Len(settled) : settled[i].state # "pending"
    /\ pc = "done" =>
          LET r == batch.value IN
          /\ r.stats.processed = Len(rawDataArray)
          /\ r.stats.successful + r.stats.failed = r.stats.processed
          /\ Len(r.data) = r.stats.successful
          /\ r.data = [j \in 1..Len(SuccessfulIndices) |->
                         settled[SuccessfulIndices[j]].value.result.data[1]]
          /\ r.success <=> r.stats.successful > 0


(***************************************************************************)
(* Claims on the array transformations.                                    *)
(***************************************************************************)

\* C22: no data transformation mutates the array passed to it: after
\* getTopEntries, sortByPercentage or filterLowPercentageEntries returns, and
\* after detectMarketTrends or predictMarketEvolution returns, the caller's array
\* holds the same elements in the same order as before the call.
C22_InputNotMutated ==
    [][callerArray' = callerArray /\ historical' = historical]_vars


(***************************************************************************)
(* Further claims on the trend detector.                                   *)
(***************************************************************************)
\* the observations of the input that carry the latest timestamp
LatestIndices ==
    { i \in 1..Len(historical) :
        \A j \in 1..Len(historical) : historical[j].date <= historical[i].date }

\* the first of them, in input order, that no other of them exceeds
LeaderIndex ==
    CHOOSE i \in LatestIndices :
        /\ \A j \in LatestIndices : historical[j].percentage <= historical[i].percentage
        /\ \A j \in LatestIndices :
              j < i => historical[j].percentage < historical[i].percentage

\* C23: for non-empty input, marketLeader is the model of the first observation in
\* input order, among those carrying the latest timestamp of the whole input,
\* whose percentage no other of them exceeds, and marketShare is that percentage;
\* earlier observations have no influence.
C23_LeaderIsLatestGreatest ==
    (pc = "detected" /\ historical # <<>>) =>
        trends.marketLeader =
            [model |-> historical[LeaderIndex].gpuModel,
             marketShare |-> historical[LeaderIndex].percentage]

\* two models tie at the latest timestamp, below an earlier observation
C23_Witness ==
    /\ pc = "detected"
    /\ \E i, j \in LatestIndices :
          /\ historical[i].gpuModel # historical[j].gpuModel
          /\ historical[i].percentage = historical[j].percentage
          /\ i = LeaderIndex
    /\ \E e \in 1..Len(historical) :
          /\ e \notin LatestIndices
          /\ historical[e].percentage > historical[LeaderIndex].percentage

\* d of the claim: the months between the earliest and the latest observation
MonthsBetween ==
    LET dates == { historical[i].date : i \in 1..Len(historical) }
    IN (CHOOSE hi \in dates : \A x \in dates : x <= hi)
         - (CHOOSE lo \in dates : \A x \in dates : x >= lo)

Unit(n, word) == ToString(n) \o " " \o word \o (IF n = 1 THEN "" ELSE "s")

C25_InitializeIdempotent ==
    /\ specTable = gpuRecords
    /\ benchmarks = benchmarkRecords


(***************************************************************************)
(* Further claims on the bottleneck scorer.                                *)
(***************************************************************************)
VRAMSizes == { g.vram : g \in GPUs \cup TableGPUs }

\* the overall score of the state's configuration with the GPU's VRAM set to v
ScoreWithVRAM(v) ==
    calculateOverallPerformance(calculateGPUScore([gpu EXCEPT !.vram = v], targetGame),
                                calculateCPUScore(cpu),
                                calculateMemoryScore(v, targetGame))

\* C26: with all other inputs fixed and gpu.performanceScore >= 0, the
\* performanceScore returned by calculateBottleneck is non-decreasing in gpu.vram.
C26_ScoreMonotoneInVRAM ==
    (pc = "done" /\ gpu.performanceScore >= 0) =>
        /\ analysis.performanceScore = ScoreWithVRAM(gpu.vram)
        /\ \A v \in VRAMSizes :
              /\ v >= gpu.vram => ScoreWithVRAM(v) >= analysis.performanceScore
              /\ v <= gpu.vram => ScoreWithVRAM(v) <= analysis.performanceScore

\* more VRAM than the game recommends, and a strictly better score than with less
C26_Witness ==
    /\ pc = "done" /\ gpu.performanceScore > 0
    /\ gpu.vram >= 2 * targetGame.recommendedVRAM /\ targetGame.recommendedVRAM >= 16
    /\ \E v \in VRAMSizes : v < gpu.vram /\ ScoreWithVRAM(v) < analysis.performanceScore


\* C27: for component performanceScore values in [1, 100], every upgrade option
\* returned by calculateBottleneck (GPU, CPU or Memory) has
\* expectedImprovement >= 0.
C27_ImprovementNeverNegative ==
    (/\ pc = "done"
     /\ gpu.performanceScore \in 1..100
     /\ cpu.performanceScore \in 1..100) =>
        \A i \in 1..Len(analysis.upgradeOptions) :
            \/ analysis.upgradeOptions[i].expectedImprovement.inf
            \/ analysis.upgradeOptions[i].expectedImprovement.val >= 0

\* The bonus the generation of a table record's architecture calls for.
GenerationBonus(architecture) ==
    CASE architecture \in {"Ada Lovelace", "RDNA 3"} -> 5
      [] architecture \in {"Ampere", "RDNA 2"} -> 3
      [] architecture \in {"Turing", "RDNA"} -> 1

\* C28: for every GPU record of the built-in specification table passed to
\* calculateBottleneck, the architecture bonus the scorer applies is +5 for
\* Ada Lovelace or RDNA 3, +3 for Ampere or RDNA 2 and +1 for Turing or
\* first-generation RDNA.
C28_BonusReflectsGeneration ==
    (/\ pc = "done"
     /\ gpu \in TableGPUs
     /\ gpu.architecture \in {"Ada Lovelace", "RDNA 3", "Ampere", "RDNA 2", "Turing", "RDNA"}) =>
        getArchitectureBonus(gpu.architecture) = GenerationBonus(gpu.architecture)

\* The number of observations of a model in the call's input.
ObservationCount(model) ==
    Cardinality({i \in 1..Len(historical) : historical[i].gpuModel = model})

ModelsOf(list) == {list[i] : i \in 1..Len(list)}

ShortModels ==
    {m \in ModelsOf(modelKeys(historical)) : ObservationCount(m) <= window}

\* C29: in a summary returned by detectMarketTrends, a model with at most
\* `window` observations is classified stable with rate 0 whatever its
\* percentages and is neither fastestGrowth nor fastestDecline; a model
\* classified growing or declining has at least window + 1 observations.
C29_ShortSeriesStable ==
    pc = "detected" =>
        /\ \A m \in ShortModels :
              /\ m \in ModelsOf(trends.stable)
              /\ m \notin ModelsOf(trends.growing) \cup ModelsOf(trends.declining)
              /\ analyzeModelTrends(historical, window)[m].rate = <<0, 1>>
              /\ trends.fastestGrowth.model # m
              /\ trends.fastestDecline.model # m
        /\ \A m \in ModelsOf(trends.growing) \cup ModelsOf(trends.declining) :
              ObservationCount(m) >= window + 1

\* A summary with a model of several differing percentages but no more than
\* `window` observations, next to a model that is classified growing.
C29_Witness ==
    /\ pc = "detected"
    /\ trends.growing # <<>>
    /\ \E m \in ShortModels :
          \E i, j \in 1..Len(historical) :
              /\ historical[i].gpuModel = m /\ historical[j].gpuModel = m
              /\ historical[i].percentage < historical[j].percentage
              /\ historical[i].date < historical[j].date

\* C30: every cluster returned by clusterUserProfiles has avgPerformanceScore
\* between 45 and 97.5, and its name is 'Enthusiast Gamers', 'High-End Users'
\* or 'Mid-Range Gaming', never 'Budget Gaming' or 'Entry-Level Users'.
C30_ClusterScoreRange ==
    pc = "done" =>
        \A i \in 1..Len(userClusters) :
            LET avg == userClusters[i].avgPerformanceScore IN
            /\ avg[2] > 0
            /\ 45 * avg[2] <= avg[1]
            /\ 2 * avg[1] <= 195 * avg[2]
            /\ userClusters[i].name
                  \in {"Enthusiast Gamers", "High-End Users", "Mid-Range Gaming"}

\* A call that returns a cluster at each end of the range: one averaging 45
\* (an unrecognised GPU with an unrecognised CPU) and one averaging 97.5.
C30_Witness ==
    /\ pc = "done"
    /\ \E i, j \in 1..Len(userClusters) :
          /\ userClusters[i].avgPerformanceScore = <<45, 1>>
          /\ userClusters[i].name = "Mid-Range Gaming"
          /\ userClusters[j].avgPerformanceScore = <<195, 2>>
          /\ userClusters[j].name = "Enthusiast Gamers"

====
